---------------------------- MODULE Spec2Model ----------------------------
(***************************************************************************)
(* Model of the Arabic real-estate dialogue agent: the per-turn controller *)
(* RealEstateAgent.process_message (agent.py), the reasoning step          *)
(* Reasoning.analyze with its phase transition table (reasoning.py), the   *)
(* slot extractors (text_processing.py, arabic_nlp_helpers.py), the        *)
(* retrieval layer (retrieval.py, knowledge_base.py), the conversation     *)
(* history (history.py) and the phase manager (phase_manager.py).          *)
(*                                                                         *)
(* A text (Python str) is a sequence of Unicode code points.  The modelled *)
(* alphabet is ASCII together with the Arabic block U+0600..U+06FF; the    *)
(* character classes below are the classes of Python's re module           *)
(* restricted to that alphabet.                                            *)
(***************************************************************************)
EXTENDS Integers, Sequences, FiniteSets, TLC

(***************************************************************************)
(* Python values.  None is a distinguished value; a dict is a function     *)
(* whose domain is its key set; a list is a sequence.                      *)
(***************************************************************************)
None == "None"

EmptyDict == [k \in {} |-> None]

\* d1.update(d2) / {**d1, **d2}: the keys of d2 overwrite those of d1
\* a faulty variant of DictUpdate: the profile is replaced by the delta
\* instead of merged with it
DictUpdate_replaces(d1, d2) == d2

DictUpdate(d1, d2) ==
    [k \in (DOMAIN d1) \cup (DOMAIN d2) |-> IF k \in DOMAIN d2 THEN d2[k] ELSE d1[k]]

\* d with d[k] = v assigned
DictSet(d, k, v) == [x \in (DOMAIN d) \cup {k} |-> IF x = k THEN v ELSE d[x]]

\* truth value of a str or list: non-empty
Truthy(v) == Len(v) > 0

(***************************************************************************)
(* Character classes of Python's re (str patterns) on the alphabet.        *)
(***************************************************************************)
\* \d
IsDigit(c) == c \in 48..57 \/ c \in 1632..1641 \/ c \in 1776..1785

\* \s, and the characters str.strip() removes
IsSpace(c) == c \in 9..13 \/ c \in 28..32

\* [\u0600-\u06FF]
IsArabic(c) == c \in 1536..1791

\* [\u0600-\u06FF\s]
IsArabicOrSpace(c) == IsArabic(c) \/ IsSpace(c)

\* \w
IsWord(c) ==
    \/ c \in 48..57 \/ c \in 65..90 \/ c = 95 \/ c \in 97..122
    \/ c \in 1568..1610 \/ c \in 1632..1641 \/ c \in 1646..1647
    \/ c \in 1649..1747 \/ c = 1749 \/ c \in 1765..1766
    \/ c \in 1774..1788 \/ c = 1791

\* [\d,]
IsDigitOrComma(c) == IsDigit(c) \/ c = 44

\* the decimal value of a digit character (int() accepts every \d character)
DigitValue(c) == IF c \in 48..57 THEN c - 48 ELSE IF c \in 1632..1641 THEN c - 1632 ELSE c - 1776

(***************************************************************************)
(* str operations.                                                         *)
(***************************************************************************)
\* t[i:i+len(w)] == w, 1-based i
MatchAt(t, i, w) ==
    /\ i >= 1
    /\ i + Len(w) - 1 <= Len(t)
    /\ \A k \in 1..Len(w) : t[i + k - 1] = w[k]

\* w in t
Contains(t, w) == \E i \in 1..(Len(t) - Len(w) + 1) : MatchAt(t, i, w)

\* any(w in t for w in ws)
ContainsAny(t, ws) == \E j \in 1..Len(ws) : Contains(t, ws[j])

\* t.lower()
Lower(t) == [i \in 1..Len(t) |-> IF t[i] \in 65..90 THEN t[i] + 32 ELSE t[i]]

\* t[i-1:j-1] (1-based, j exclusive)
Slice(t, i, j) == IF j <= i THEN <<>> ELSE SubSeq(t, i, j - 1)

\* the least element of a non-empty set of integers
Min(S) == CHOOSE x \in S : \A y \in S : x <= y

\* the index just after the maximal run of characters of class P starting at i
RunEnd(t, i, P(_)) ==
    LET stops == {j \in i..Len(t) : ~P(t[j])}
    IN  IF i > Len(t) THEN i
        ELSE IF stops = {} THEN Len(t) + 1
        ELSE Min(stops)

\* the least index j >= i with a non-space character, or Len(t)+1
SkipSpaces(t, i) == RunEnd(t, i, IsSpace)

\* t.strip()
Strip(t) ==
    LET a == SkipSpaces(t, 1)
        NonSpaceAt == {j \in 1..Len(t) : ~IsSpace(t[j])}
        b == IF NonSpaceAt = {} THEN 0 ELSE CHOOSE j \in NonSpaceAt : \A k \in NonSpaceAt : k <= j
    IN  Slice(t, a, b + 1)

\* t.replace(',', '')
RECURSIVE RemoveCommas(_)
RemoveCommas(t) ==
    IF t = <<>> THEN <<>>
    ELSE IF Head(t) = 44 THEN RemoveCommas(Tail(t))
    ELSE <<Head(t)>> \o RemoveCommas(Tail(t))

\* int(t) for a non-empty text of \d characters
RECURSIVE ToInt(_)
ToInt(t) == IF t = <<>> THEN 0 ELSE 10 * ToInt(SubSeq(t, 1, Len(t) - 1)) + DigitValue(t[Len(t)])


(***************************************************************************)
(* The user messages the turns draw from.                                  *)
(***************************************************************************)
msg_go_back == <<1575, 1585, 1580, 1593>>    \* "ارجع"

msg_confused == <<1605, 1588, 32, 1601, 1575, 1607, 1605>>    \* "مش فاهم"

msg_full == <<1593, 1575, 1610, 1586, 32, 1588, 1602, 1577, 32, 1601, 1610, 32, 1575, 1604, 1605, 1593, 1575, 1583, 1610, 32, 1576, 1605, 1610, 1586, 1575, 1606, 1610, 1577, 32, 53, 48, 48, 32, 1575, 1604, 1601>>    \* "عايز شقة في المعادي بميزانية 500 الف"

msg_budget == <<54, 48, 48, 32, 1575, 1604, 1601>>    \* "600 الف"

msg_confirm == <<1578, 1605, 1575, 1605>>    \* "تمام"

msg_objection == <<1594, 1575, 1604, 1610>>    \* "غالي"

msg_interest == <<1605, 1607, 1578, 1605>>    \* "مهتم"

msg_proceed == <<1571, 1585, 1610, 1583>>    \* "أريد"

msg_contact == <<1575, 1587, 1605, 1610, 32, 1605, 1581, 1605, 1583, 32, 48, 49, 48, 49, 50, 51, 52, 53, 54, 55, 56>>    \* "اسمي محمد 01012345678"

msg_phone == <<48, 49, 48, 49, 50, 51, 52, 53, 54, 55>>    \* "0101234567"

msg_reference == <<1583, 1610, 32, 1605, 1588, 32, 1581, 1604, 1608, 1577>>    \* "دي مش حلوة"

msg_greeting == <<1575, 1607, 1604, 1575>>    \* "اهلا"

msg_feature == <<1593, 1575, 1610, 1586, 32, 1571, 1605, 1606>>    \* "عايز أمن"

msg_mobile == <<48, 49, 48, 49, 50, 51, 52, 53, 54, 55, 56>>    \* "01012345678"

msg_keen == <<1578, 1605, 1575, 1605, 32, 1605, 1607, 1578, 1605, 32, 1576, 1587, 32, 1594, 1575, 1604, 1610, 32, 1608, 1571, 1585, 1610, 1583, 32, 1575, 1593, 1585, 1601>>    \* "تمام مهتم بس غالي وأريد اعرف"

Messages ==
    {msg_go_back, msg_confused, msg_full, msg_budget, msg_confirm, msg_objection,
     msg_interest, msg_proceed, msg_contact, msg_phone, msg_reference, msg_greeting, msg_feature, msg_mobile, msg_keen}

(***************************************************************************)
(* config.py: the conversation phases, in enum order.                      *)
(***************************************************************************)
ConversationPhase ==
    <<"DISCOVERY", "SUMMARY", "SUGGESTION", "PERSUASION", "ALTERNATIVE", "URGENCY", "CLOSING">>

Phases == {ConversationPhase[i] : i \in 1..Len(ConversationPhase)}

\* list(ConversationPhase).index(p)  (1-based)
PhaseIndex(p) == CHOOSE i \in 1..Len(ConversationPhase) : ConversationPhase[i] = p

(***************************************************************************)
(* agent.py: RealEstateAgent._basic_info_extraction, the always-on slot    *)
(* scanner.                                                                *)
(***************************************************************************)
agent_locations ==
    <<
      <<1575, 1604, 1602, 1575, 1607, 1585, 1577>>,    \* "القاهرة"
      <<1575, 1604, 1575, 1587, 1603, 1606, 1583, 1585, 1610, 1577>>,    \* "الاسكندرية"
      <<1575, 1604, 1580, 1610, 1586, 1577>>,    \* "الجيزة"
      <<1575, 1604, 1605, 1593, 1575, 1583, 1610>>,    \* "المعادي"
      <<1605, 1583, 1610, 1606, 1577, 32, 1606, 1589, 1585>>,    \* "مدينة نصر"
      <<54, 32, 1571, 1603, 1578, 1608, 1576, 1585>>,    \* "6 أكتوبر"
      <<1575, 1604, 1578, 1580, 1605, 1593>>,    \* "التجمع"
      <<1575, 1604, 1588, 1585, 1608, 1602>>,    \* "الشروق"
      <<1575, 1604, 1593, 1576, 1608, 1585>>,    \* "العبور"
      <<1575, 1604, 1585, 1581, 1575, 1576>>,    \* "الرحاب"
      <<1605, 1583, 1610, 1606, 1578, 1610>>,    \* "مدينتي"
      <<1575, 1604, 1588, 1610, 1582, 32, 1586, 1575, 1610, 1583>>,    \* "الشيخ زايد"
      <<1575, 1604, 1605, 1607, 1606, 1583, 1587, 1610, 1606>>,    \* "المهندسين"
      <<1575, 1604, 1583, 1602, 1610>>,    \* "الدقي"
      <<1575, 1604, 1586, 1605, 1575, 1604, 1603>>,    \* "الزمالك"
      <<1608, 1587, 1591, 32, 1575, 1604, 1576, 1604, 1583>>,    \* "وسط البلد"
      <<1605, 1589, 1585, 32, 1575, 1604, 1580, 1583, 1610, 1583, 1577>>,    \* "مصر الجديدة"
      <<1581, 1604, 1608, 1575, 1606>>    \* "حلوان"
    >>

\* the unit alternatives of budget_pattern, in the order of the alternation
budget_units ==
    <<
      <<1580, 1606, 1610, 1607>>,    \* "جنيه"
      <<1575, 1604, 1601>>,    \* "الف"
      <<1605, 1604, 1610, 1608, 1606>>,    \* "مليون"
      <<107>>,    \* "k"
      <<109>>    \* "m"
    >>

unit_k == <<107>>    \* "k"
unit_alf == <<1575, 1604, 1601>>    \* "الف"
unit_m == <<109>>    \* "m"
unit_million == <<1605, 1604, 1610, 1608, 1606>>    \* "مليون"

suffix_thousand == <<32, 1571, 1604, 1601, 32, 1580, 1606, 1610, 1607>>    \* " ألف جنيه"
suffix_million == <<32, 1605, 1604, 1610, 1608, 1606, 32, 1580, 1606, 1610, 1607>>    \* " مليون جنيه"
suffix_pounds == <<32, 1580, 1606, 1610, 1607>>    \* " جنيه"

\* the dict `types`, in insertion order: <<prop, keys>>
agent_types ==
    <<
      <<<<1588, 1602, 1577>>, <<<<1588, 1602, 1577>>, <<1588, 1602, 1607>>, <<97, 112, 97, 114, 116, 109, 101, 110, 116>>>> >>,    \* "شقة": ['شقة', 'شقه', 'apartment']
      <<<<1601, 1610, 1604, 1575>>, <<<<1601, 1610, 1604, 1575>>, <<1601, 1610, 1604, 1575, 1578>>, <<118, 105, 108, 108, 97>>>> >>,    \* "فيلا": ['فيلا', 'فيلات', 'villa']
      <<<<1583, 1608, 1576, 1604, 1603, 1587>>, <<<<1583, 1608, 1576, 1604, 1603, 1587>>, <<100, 117, 112, 108, 101, 120>>>> >>,    \* "دوبلكس": ['دوبلكس', 'duplex']
      <<<<1587, 1578, 1608, 1583, 1610, 1608>>, <<<<1587, 1578, 1608, 1583, 1610, 1608>>, <<115, 116, 117, 100, 105, 111>>>> >>,    \* "ستوديو": ['ستوديو', 'studio']
      <<<<1605, 1581, 1604>>, <<<<1605, 1581, 1604>>, <<1605, 1581, 1604, 1575, 1578>>, <<115, 104, 111, 112>>>> >>,    \* "محل": ['محل', 'محلات', 'shop']
      <<<<1605, 1603, 1578, 1576>>, <<<<1605, 1603, 1578, 1576>>, <<1605, 1603, 1575, 1578, 1576>>, <<111, 102, 102, 105, 99, 101>>>> >>    \* "مكتب": ['مكتب', 'مكاتب', 'office']
    >>

\* for location in locations: if location in message: the first such
\* location, <<>> when there is none
LocationIn(message) ==
    LET hits == {j \in 1..Len(agent_locations) : Contains(message, agent_locations[j])}
    IN  IF hits # {} THEN <<agent_locations[Min(hits)]>> ELSE <<>>

\* budget_pattern = (\d[\d,]*)\s*(unit) matches with its first group starting
\* at i: the greedy group and the greedy \s* are followed by a unit (no unit
\* starts with a digit, a comma or a space, so backtracking finds nothing else)
BudgetGroupEnd(t, i) == RunEnd(t, i + 1, IsDigitOrComma)

BudgetUnitAt(t, i) == SkipSpaces(t, BudgetGroupEnd(t, i))

BudgetMatchAt(t, i) ==
    /\ IsDigit(t[i])
    /\ \E j \in 1..Len(budget_units) : MatchAt(t, BudgetUnitAt(t, i), budget_units[j])

\* re.search(budget_pattern, message): the leftmost match, as <<amount, unit>>
\* with amount = group(1).replace(',', ''), or <<>> for None
BudgetSearch(message) ==
    LET starts == {i \in 1..Len(message) : BudgetMatchAt(message, i)}
    IN  IF starts = {} THEN <<>>
        ELSE LET i == Min(starts)
                 u == BudgetUnitAt(message, i)
                 j == Min({k \in 1..Len(budget_units) : MatchAt(message, u, budget_units[k])})
             IN  <<RemoveCommas(Slice(message, i, BudgetGroupEnd(message, i))), budget_units[j]>>

\* the f-string written into user_info["budget"]
FormatBudget(amount, unit) ==
    IF unit \in {unit_k, unit_alf} THEN amount \o suffix_thousand
    ELSE IF unit \in {unit_m, unit_million} THEN amount \o suffix_million
    ELSE amount \o suffix_pounds

\* the budget text the message gives, <<>> when the pattern does not match
BudgetIn(message) ==
    LET match == BudgetSearch(message)
    IN  IF match # <<>> THEN <<FormatBudget(match[1], match[2])>> ELSE <<>>

\* for prop, keys in types.items(): for k in keys: if k in message_lower: the
\* first such prop, <<>> when there is none
PropertyTypeIn(message) ==
    LET message_lower == Lower(message)
        hits == {j \in 1..Len(agent_types) : ContainsAny(message_lower, agent_types[j][2])}
    IN  IF hits # {} THEN <<agent_types[Min(hits)][1]>> ELSE <<>>

\* _is_reference_to_previous_property: re.search of  word.*(marker)  on
\* msg.lower(), for any vague word; '.' does not match a newline
vague ==
    <<
      <<1607, 1610>>,    \* "هي"
      <<1583, 1607>>,    \* "ده"
      <<1583, 1610>>,    \* "دي"
      <<1575, 1604, 1593, 1602, 1575, 1585, 32, 1583, 1607>>,    \* "العقار ده"
      <<1575, 1604, 1593, 1585, 1590, 32, 1583, 1607>>    \* "العرض ده"
    >>

dislike_markers ==
    <<
      <<1605, 1588>>,    \* "مش"
      <<1605, 1575, 32, 1593, 1580, 1576, 1606, 1610>>,    \* "ما عجبني"
      <<1605, 1575, 32, 1593, 1580, 1576, 1575, 1606, 1610>>,    \* "ما عجباني"
      <<1605, 1575, 32, 1593, 1580, 1576, 1607, 1575>>    \* "ما عجبها"
    >>

is_reference_to_previous_property(msg) ==
    LET t == Lower(msg)
    IN  \E w \in 1..Len(vague), i \in 1..Len(t), j \in 1..Len(t), d \in 1..Len(dislike_markers) :
            /\ MatchAt(t, i, vague[w])
            /\ j >= i + Len(vague[w])
            /\ MatchAt(t, j, dislike_markers[d])
            /\ \A k \in (i + Len(vague[w]))..(j - 1) : t[k] # 10

(***************************************************************************)
(* knowledge_base.py: the knowledge store in injected mode.  The listing   *)
(* table and the rule data are the data handed to the constructor; every   *)
(* column of the table holds text.                                         *)
(***************************************************************************)
\* csv_data["properties"].to_dict(orient="records")
csv_properties ==
    <<
      \* ('شقة', 'المعادي', '500000', 'مسبح، حديقة', '3')
      [type |-> <<1588, 1602, 1577>>, location |-> <<1575, 1604, 1605, 1593, 1575, 1583, 1610>>,
       price |-> <<53, 48, 48, 48, 48, 48>>, features |-> <<1605, 1587, 1576, 1581, 1548, 32, 1581, 1583, 1610, 1602, 1577>>,
       bedrooms |-> <<51>>],
      \* ('شقة', 'المعادي', '650000', 'أمن', '2')
      [type |-> <<1588, 1602, 1577>>, location |-> <<1575, 1604, 1605, 1593, 1575, 1583, 1610>>,
       price |-> <<54, 53, 48, 48, 48, 48>>, features |-> <<1571, 1605, 1606>>,
       bedrooms |-> <<50>>],
      \* ('فيلا', 'الشيخ زايد', '5000000', 'حديقة', '5')
      [type |-> <<1601, 1610, 1604, 1575>>, location |-> <<1575, 1604, 1588, 1610, 1582, 32, 1586, 1575, 1610, 1583>>,
       price |-> <<53, 48, 48, 48, 48, 48, 48>>, features |-> <<1581, 1583, 1610, 1602, 1577>>,
       bedrooms |-> <<53>>],
      \* ('شقة', 'المعادي', '1500000', 'شرفة', '3')
      [type |-> <<1588, 1602, 1577>>, location |-> <<1575, 1604, 1605, 1593, 1575, 1583, 1610>>,
       price |-> <<49, 53, 48, 48, 48, 48, 48>>, features |-> <<1588, 1585, 1601, 1577>>,
       bedrooms |-> <<51>>]
    >>

\* rules_data (the shape of rules.json); responses are opaque texts
rules_data ==
    [budget_advice |->
        << [condition |-> "budget_high", response |-> "advice_budget_high"],
           [condition |-> "budget_mid", response |-> "advice_budget_mid"],
           [condition |-> "budget_low", response |-> "advice_budget_low"] >>,
     property_priority |->
        << [feature |-> <<1605, 1587, 1576, 1581>>, response |-> "advice_pool"] >> ]    \* feature "مسبح"

\* a filter value is a str or a list of str; get_properties tells them apart
\* with isinstance
Str(t) == [type |-> "str", value |-> t]

List(l) == [type |-> "list", value |-> l]

\* a faulty variant of PropMatches: a listing without the key of a filter
\* does not match
PropMatches_strict(prop, filters) ==
    \A key \in DOMAIN filters :
        /\ key \in DOMAIN prop
        /\ \/ /\ filters[key].type = "str"
              /\ Contains(Lower(prop[key]), Lower(filters[key].value))
           \/ /\ filters[key].type = "list"
              /\ \E j \in 1..Len(filters[key].value) :
                     Contains(Lower(prop[key]), Lower(filters[key].value[j]))

\* the body of the loop over filters.items() for one listing
PropMatches(prop, filters) ==
    \A key \in DOMAIN filters :
        \/ key \notin DOMAIN prop
        \/ /\ filters[key].type = "str"
           /\ Contains(Lower(prop[key]), Lower(filters[key].value))
        \/ /\ filters[key].type = "list"
           /\ \E j \in 1..Len(filters[key].value) :
                  Contains(Lower(prop[key]), Lower(filters[key].value[j]))

\* the loop over self.properties from listing i on, with the matches so far
RECURSIVE GetPropertiesFrom(_, _, _, _, _)
GetPropertiesFrom(props, i, matches, filters, limit) ==
    IF i > Len(props) THEN matches
    ELSE LET matches2 == IF PropMatches(props[i], filters)
                         THEN Append(matches, props[i])
                         ELSE matches
         IN  IF Len(matches2) >= limit THEN matches2
             ELSE GetPropertiesFrom(props, i + 1, matches2, filters, limit)

\* the loop leaving one match late
get_properties_late(props, filters, limit) == GetPropertiesFrom(props, 1, <<>>, filters, limit + 1)

get_properties(props, filters, limit) == GetPropertiesFrom(props, 1, <<>>, filters, limit)

\* _build_phase_knowledge_from_json and get_phase_knowledge: per-phase content
\* for three phases, {} for the others; the texts are opaque
get_phase_knowledge(phase) ==
    IF phase = "DISCOVERY"
    THEN [suggested_questions |-> <<"ask_property_type", "ask_location", "ask_budget">>]
    ELSE IF phase = "SUMMARY"
    THEN [confirmation_phrases |-> <<"tamam", "mazbout", "mowafeq">>]
    ELSE IF phase = "SUGGESTION"
    THEN [call_to_action |-> "see_these_listings"]
    ELSE EmptyDict

(***************************************************************************)
(* retrieval.py: KnowledgeRetrieval.                                       *)
(***************************************************************************)
\* the cap passed to get_properties
retrieve_limit == 3

word_fi == <<1601, 1610>>    \* "في"

query_types ==
    <<
      <<1588, 1602, 1577>>,    \* "شقة"
      <<1601, 1610, 1604, 1575>>,    \* "فيلا"
      <<1583, 1608, 1576, 1604, 1603, 1587>>,    \* "دوبلكس"
      <<1575, 1587, 1578, 1608, 1583, 1610, 1608>>,    \* "استوديو"
      <<1605, 1581, 1604>>,    \* "محل"
      <<1605, 1603, 1578, 1576>>    \* "مكتب"
    >>

query_features ==
    <<
      <<1605, 1587, 1576, 1581>>,    \* "مسبح"
      <<1581, 1583, 1610, 1602, 1577>>,    \* "حديقة"
      <<1588, 1585, 1601, 1577>>,    \* "شرفة"
      <<1578, 1603, 1610, 1610, 1601>>,    \* "تكييف"
      <<1605, 1601, 1585, 1608, 1588>>,    \* "مفروش"
      <<1571, 1605, 1606>>    \* "أمن"
    >>

\* loc_match: fi \s+ ([\u0600-\u06FF\s]{2,}) with "fi" at i.  run is the length
\* of the maximal run of [\u0600-\u06FF\s] after "fi" and spaces the length of
\* its leading white space; \s+ takes the most white space that leaves the
\* group two characters
LocRun(t, i) == RunEnd(t, i + Len(word_fi), IsArabicOrSpace) - (i + Len(word_fi))

LocSpaces(t, i) == SkipSpaces(t, i + Len(word_fi)) - (i + Len(word_fi))

LocMatchAt(t, i) ==
    /\ MatchAt(t, i, word_fi)
    /\ LocSpaces(t, i) >= 1
    /\ LocRun(t, i) - 1 >= 2

LocGroup(t, i) ==
    LET k == IF LocSpaces(t, i) <= LocRun(t, i) - 2 THEN LocSpaces(t, i) ELSE LocRun(t, i) - 2
    IN  Slice(t, i + Len(word_fi) + k, i + Len(word_fi) + LocRun(t, i))

\* price_match: (\d[\d,]*)\s*-\s*(\d[\d,]*) with its first group starting at i
PriceDashAt(t, i) == SkipSpaces(t, RunEnd(t, i + 1, IsDigitOrComma))

PriceSecondAt(t, i) == SkipSpaces(t, PriceDashAt(t, i) + 1)

PriceMatchAt(t, i) ==
    /\ IsDigit(t[i])
    /\ PriceDashAt(t, i) <= Len(t)
    /\ t[PriceDashAt(t, i)] = 45
    /\ PriceSecondAt(t, i) <= Len(t)
    /\ IsDigit(t[PriceSecondAt(t, i)])

\* ",".join(features)
RECURSIVE JoinComma(_)
JoinComma(l) ==
    IF Len(l) = 0 THEN <<>>
    ELSE IF Len(l) = 1 THEN l[1]
    ELSE l[1] \o <<44>> \o JoinComma(Tail(l))

\* [x for x in l if x in t], for a list l of texts
RECURSIVE FoundIn(_, _)
FoundIn(l, t) ==
    IF l = <<>> THEN <<>>
    ELSE IF Contains(t, Head(l)) THEN <<Head(l)>> \o FoundIn(Tail(l), t)
    ELSE FoundIn(Tail(l), t)

extract_filters_from_query(query) ==
    LET locs == {i \in 1..Len(query) : LocMatchAt(query, i)}
        f1 == IF locs = {} THEN EmptyDict
              ELSE DictSet(EmptyDict, "location", Str(Strip(LocGroup(query, Min(locs)))))
        found_types == FoundIn(query_types, query)
        f2 == IF found_types = <<>> THEN f1 ELSE DictSet(f1, "type", Str(found_types[1]))
        prices == {i \in 1..Len(query) : PriceMatchAt(query, i)}
        f3 == IF prices = {} THEN f2
              ELSE LET i == Min(prices)
                       s == PriceSecondAt(query, i)
                   IN  DictSet(f2, "price",
                           Str(Slice(query, i, RunEnd(query, i + 1, IsDigitOrComma))
                               \o <<45>>
                               \o Slice(query, s, RunEnd(query, s + 1, IsDigitOrComma))))
        features == FoundIn(query_features, query)
    IN  IF features = <<>> THEN f3 ELSE DictSet(f3, "features", Str(JoinComma(features)))

\* the dict `mapping`: profile slot -> listing column, in insertion order
slot_mapping ==
    << <<"location", "location">>, <<"property_type", "type">>, <<"budget", "price">>,
       <<"features", "features">>, <<"bedrooms", "bedrooms">> >>

\* the filters taken from the profile: truthy slots only.  The features slot
\* holds a list, every other mapped slot a text
ProfileFilters(user_info) ==
    LET used == {j \in 1..Len(slot_mapping) :
                    /\ slot_mapping[j][1] \in DOMAIN user_info
                    /\ Truthy(user_info[slot_mapping[j][1]])}
        ColOf(key) == CHOOSE j \in used : slot_mapping[j][2] = key
    IN  [key \in {slot_mapping[j][2] : j \in used} |->
            IF slot_mapping[ColOf(key)][1] = "features"
            THEN List(user_info[slot_mapping[ColOf(key)][1]])
            ELSE Str(user_info[slot_mapping[ColOf(key)][1]])]

(***************************************************************************)
(* arabic_nlp_helpers.py: normalize_arabic_text.                           *)
(***************************************************************************)
\* a faulty variant of IsDiacritic: the superscript alef is left out
IsDiacritic_block(c) == c \in 1611..1631

\* [\u064B-\u065F\u0670]
IsDiacritic(c) == c \in 1611..1631 \/ c = 1648

\* the letter unifications, then every character outside
\* [\u0600-\u06FF\s0-9] becomes a space
NormalizeChar(c) ==
    IF c \in {1570, 1571, 1573, 1575} THEN 1575
    ELSE IF c \in {1572, 1574} THEN 1569
    ELSE IF c = 1577 THEN 1607
    ELSE IF c \in {1609, 1610} THEN 1610
    ELSE IF IsArabic(c) \/ IsSpace(c) \/ c \in 48..57 THEN c
    ELSE 32

RECURSIVE NormalizeChars(_)
NormalizeChars(t) ==
    IF t = <<>> THEN <<>>
    ELSE IF IsDiacritic(Head(t)) THEN NormalizeChars(Tail(t))
    ELSE <<NormalizeChar(Head(t))>> \o NormalizeChars(Tail(t))

\* re.sub(r'\s+', ' ', t)
RECURSIVE CollapseSpaces(_)
CollapseSpaces(t) ==
    IF t = <<>> THEN <<>>
    ELSE IF IsSpace(Head(t))
    THEN <<32>> \o CollapseSpaces(Slice(t, SkipSpaces(t, 1), Len(t) + 1))
    ELSE <<Head(t)>> \o CollapseSpaces(Tail(t))

normalize_arabic_text(text) ==
    IF text = <<>> THEN <<>> ELSE Strip(CollapseSpaces(NormalizeChars(text)))

(***************************************************************************)
(* arabic_nlp_helpers.py: detect_arabic_entities, the gazetteer pass.      *)
(***************************************************************************)
saudi_cities ==
    <<
      <<1575, 1604, 1585, 1610, 1575, 1590>>,    \* "الرياض"
      <<1580, 1583, 1577>>,    \* "جدة"
      <<1605, 1603, 1577>>,    \* "مكة"
      <<1575, 1604, 1605, 1583, 1610, 1606, 1577>>,    \* "المدينة"
      <<1575, 1604, 1583, 1605, 1575, 1605>>,    \* "الدمام"
      <<1575, 1604, 1582, 1576, 1585>>,    \* "الخبر"
      <<1575, 1604, 1592, 1607, 1585, 1575, 1606>>,    \* "الظهران"
      <<1578, 1576, 1608, 1603>>,    \* "تبوك"
      <<1571, 1576, 1607, 1575>>,    \* "أبها"
      <<1575, 1604, 1602, 1589, 1610, 1605>>,    \* "القصيم"
      <<1576, 1585, 1610, 1583, 1577>>,    \* "بريدة"
      <<1606, 1580, 1585, 1575, 1606>>,    \* "نجران"
      <<1580, 1575, 1586, 1575, 1606>>,    \* "جازان"
      <<1581, 1575, 1574, 1604>>,    \* "حائل"
      <<1593, 1587, 1610, 1585>>,    \* "عسير"
      <<1575, 1604, 1576, 1575, 1581, 1577>>,    \* "الباحة"
      <<1575, 1604, 1580, 1608, 1601>>,    \* "الجوف"
      <<1593, 1585, 1593, 1585>>,    \* "عرعر"
      <<1610, 1606, 1576, 1593>>,    \* "ينبع"
      <<1575, 1604, 1591, 1575, 1574, 1601>>    \* "الطائف"
    >>

riyadh_neighborhoods ==
    <<
      <<1575, 1604, 1606, 1582, 1610, 1604>>,    \* "النخيل"
      <<1575, 1604, 1593, 1604, 1610, 1575>>,    \* "العليا"
      <<1575, 1604, 1605, 1604, 1602, 1575>>,    \* "الملقا"
      <<1575, 1604, 1610, 1575, 1587, 1605, 1610, 1606>>,    \* "الياسمين"
      <<1575, 1604, 1608, 1585, 1608, 1583>>,    \* "الورود"
      <<1575, 1604, 1585, 1581, 1605, 1575, 1606, 1610, 1577>>,    \* "الرحمانية"
      <<1575, 1604, 1587, 1604, 1610, 1605, 1575, 1606, 1610, 1577>>,    \* "السليمانية"
      <<1575, 1604, 1605, 1585, 1608, 1580>>,    \* "المروج"
      <<1575, 1604, 1585, 1576, 1608, 1577>>,    \* "الربوة"
      <<1575, 1604, 1593, 1586, 1610, 1586, 1610, 1577>>,    \* "العزيزية"
      <<1575, 1604, 1605, 1604, 1586>>,    \* "الملز"
      <<1575, 1604, 1606, 1586, 1607, 1577>>,    \* "النزهة"
      <<1575, 1604, 1601, 1604, 1575, 1581>>,    \* "الفلاح"
      <<1575, 1604, 1605, 1589, 1610, 1601>>,    \* "المصيف"
      <<1575, 1604, 1585, 1608, 1590, 1577>>,    \* "الروضة"
      <<1575, 1604, 1588, 1601, 1575>>,    \* "الشفا"
      <<1575, 1604, 1583, 1585, 1593, 1610, 1577>>,    \* "الدرعية"
      <<1575, 1604, 1605, 1585, 1576, 1593>>,    \* "المربع"
      <<1575, 1604, 1576, 1591, 1581, 1575, 1569>>,    \* "البطحاء"
      <<1575, 1604, 1583, 1610, 1585, 1577>>,    \* "الديرة"
      <<1575, 1604, 1582, 1575, 1604, 1583, 1610, 1577>>,    \* "الخالدية"
      <<1575, 1604, 1606, 1587, 1610, 1605>>    \* "النسيم"
    >>

\* the keys of the dict property_types, in insertion order
detect_property_types ==
    <<
      <<1588, 1602, 1577>>,    \* "شقة"
      <<1601, 1610, 1604, 1575>>,    \* "فيلا"
      <<1605, 1606, 1586, 1604>>,    \* "منزل"
      <<1583, 1608, 1576, 1604, 1603, 1587>>,    \* "دوبلكس"
      <<1575, 1587, 1578, 1608, 1583, 1610, 1608>>,    \* "استوديو"
      <<1576, 1606, 1578, 1607, 1575, 1608, 1587>>,    \* "بنتهاوس"
      <<1605, 1581, 1604>>,    \* "محل"
      <<1605, 1603, 1578, 1576>>    \* "مكتب"
    >>

\* the unit alternatives of money_pattern
detect_money_units ==
    <<
      <<1585, 1610, 1575, 1604>>,    \* "ريال"
      <<1575, 1604, 1601>>,    \* "الف"
      <<1605, 1604, 1610, 1608, 1606>>,    \* "مليون"
      <<1571, 1604, 1601>>,    \* "ألف"
      <<1585, 46, 1587>>    \* "ر.س"
    >>

person_prefixes ==
    <<
      <<1575, 1587, 1605, 1610, 32>>,    \* "اسمي "
      <<1575, 1606, 1575, 32>>    \* "انا "
    >>

word_ghoraf == <<1594, 1585, 1601>>    \* "غرف"
word_bed == <<98, 101, 100>>    \* "bed"
word_hammam == <<1581, 1605, 1575, 1605>>    \* "حمام"
word_bath == <<98, 97, 116, 104>>    \* "bath"
word_masaha == <<1605, 1587, 1575, 1581, 1577>>    \* "مساحة"
word_metr == <<1605, 1578, 1585>>    \* "متر"
word_m == <<1605>>    \* "م"

\* money_pattern = (\d[\d,]*(?:\.\d+)?)\s*(?:units) with its group starting at
\* i: the index just after the group
MoneyGroupEnd(t, i) ==
    LET e == RunEnd(t, i + 1, IsDigitOrComma)
    IN  IF e + 1 <= Len(t) /\ t[e] = 46 /\ IsDigit(t[e + 1])
        THEN RunEnd(t, e + 1, IsDigit)
        ELSE e

MoneyUnitsAt(t, i, units) ==
    {j \in 1..Len(units) : MatchAt(t, SkipSpaces(t, MoneyGroupEnd(t, i)), units[j])}

MoneyMatchAt(t, i, units) == IsDigit(t[i]) /\ MoneyUnitsAt(t, i, units) # {}

\* re.findall(money_pattern, t) from index pos on: the groups of the
\* successive non-overlapping leftmost matches
RECURSIVE MoneyFindAll(_, _, _)
MoneyFindAll(t, pos, units) ==
    LET starts == {i \in pos..Len(t) : MoneyMatchAt(t, i, units)}
    IN  IF starts = {} THEN <<>>
        ELSE LET i == Min(starts)
                 u == units[Min(MoneyUnitsAt(t, i, units))]
             IN  <<Slice(t, i, MoneyGroupEnd(t, i))>>
                 \o MoneyFindAll(t, SkipSpaces(t, MoneyGroupEnd(t, i)) + Len(u), units)

\* the tails (?:\.|،|$|\s) and (?:\.|،|$|\s\w) of the lazy patterns: the
\* number of characters the tail consumes at e, or -1 when it does not match
AtEnd(t, e) == e = Len(t) + 1 \/ (e = Len(t) /\ t[e] = 10)

TailSpace(t, e) ==
    IF e <= Len(t) /\ t[e] \in {46, 1548} THEN 1
    ELSE IF AtEnd(t, e) THEN 0
    ELSE IF e <= Len(t) /\ IsSpace(t[e]) THEN 1
    ELSE -1

TailSpaceWord(t, e) ==
    IF e <= Len(t) /\ t[e] \in {46, 1548} THEN 1
    ELSE IF AtEnd(t, e) THEN 0
    ELSE IF e + 1 <= Len(t) /\ IsSpace(t[e]) /\ IsWord(t[e + 1]) THEN 2
    ELSE -1

\* the tail of a lazy pattern: (?:\.|،|$|\s) or (?:\.|،|$|\s\w)
Follow(tail, t, e) == IF tail = "space" THEN TailSpace(t, e) ELSE TailSpaceWord(t, e)

\* prefix([\u0600-\u06FF\s]+?)tail with the prefix at i: the lengths n >= 1 of
\* a group of [\u0600-\u06FF\s] characters that the tail follows; the lazy
\* group takes the least
LazyLengths(t, i, prefix, tail) ==
    LET g == i + Len(prefix)
    IN  {n \in 1..(Len(t) - g + 1) :
            /\ \A k \in g..(g + n - 1) : IsArabicOrSpace(t[k])
            /\ Follow(tail, t, g + n) >= 0}

LazyMatchAt(t, i, prefix, tail) ==
    MatchAt(t, i, prefix) /\ LazyLengths(t, i, prefix, tail) # {}

\* re.findall of the lazy pattern from index pos on: the groups
RECURSIVE LazyFindAll(_, _, _, _)
LazyFindAll(t, pos, prefix, tail) ==
    LET starts == {i \in pos..Len(t) : LazyMatchAt(t, i, prefix, tail)}
    IN  IF starts = {} THEN <<>>
        ELSE LET i == Min(starts)
                 g == i + Len(prefix)
                 n == Min(LazyLengths(t, i, prefix, tail))
             IN  <<Slice(t, g, g + n)>>
                 \o LazyFindAll(t, g + n + Follow(tail, t, g + n), prefix, tail)

\* t.split()[0]; a text of white space alone has no first word (the empty
\* text here: the gazetteer pass only sees normalized text, where a lazy
\* group starts with a letter)
IsNonSpace(c) == ~IsSpace(c)

FirstWord(t) ==
    LET a == SkipSpaces(t, 1)
    IN  Slice(t, a, RunEnd(t, a, IsNonSpace))

\* the loop over person_patterns from pattern j on: <<name>>, or <<>>
RECURSIVE DetectPerson(_, _)
DetectPerson(t, j) ==
    IF j > Len(person_prefixes) THEN <<>>
    ELSE LET Name(matches) ==
                 IF matches # <<>> /\ Len(FirstWord(matches[1])) > 2
                 THEN <<FirstWord(matches[1])>>
                 ELSE DetectPerson(t, j + 1)
         IN  Name(LazyFindAll(t, 1, person_prefixes[j], "space"))

\* (\d+)\s*word with its group starting at i: a maximal digit run, then
\* optional white space, then the word.  The first match of a pattern is given
\* as <<group>>, and <<>> when the pattern matches nowhere
CountMatchAt(t, i, word) ==
    IsDigit(t[i]) /\ MatchAt(t, SkipSpaces(t, RunEnd(t, i, IsDigit)), word)

CountFirst(t, word) ==
    LET starts == {i \in 1..Len(t) : CountMatchAt(t, i, word)}
    IN  IF starts = {} THEN <<>>
        ELSE <<Slice(t, Min(starts), RunEnd(t, Min(starts), IsDigit))>>

\* word\s*(\d+)
AfterWordMatchAt(t, i, word) ==
    /\ MatchAt(t, i, word)
    /\ SkipSpaces(t, i + Len(word)) <= Len(t)
    /\ IsDigit(t[SkipSpaces(t, i + Len(word))])

AfterWordFirst(t, word) ==
    LET starts == {i \in 1..Len(t) : AfterWordMatchAt(t, i, word)}
    IN  IF starts = {} THEN <<>>
        ELSE LET d == SkipSpaces(t, Min(starts) + Len(word))
             IN  <<Slice(t, d, RunEnd(t, d, IsDigit))>>

\* the first pattern of a list that matches decides: a or else b or else c
FirstOf(a, b, c) == IF a # <<>> THEN a ELSE IF b # <<>> THEN b ELSE c

DetectBedrooms(t) == FirstOf(CountFirst(t, word_ghoraf), CountFirst(t, word_bed), <<>>)

DetectBathrooms(t) == FirstOf(CountFirst(t, word_hammam), CountFirst(t, word_bath), <<>>)

DetectArea(t) ==
    FirstOf(AfterWordFirst(t, word_masaha), CountFirst(t, word_metr), CountFirst(t, word_m))

\* <<l>> for a non-empty list l, <<>> for an empty one
NonEmpty(l) == IF l = <<>> THEN <<>> ELSE <<l>>

\* a dict from a set of <<key, v>> pairs, v being <<value>> when the key is
\* set and <<>> when it is not
DictOf(entries) ==
    [k \in {e[1] : e \in {x \in entries : x[2] # <<>>}} |->
        (CHOOSE e \in entries : e[1] = k)[2][1]]

detect_arabic_entities(text) ==
    LET locations == FoundIn(saudi_cities, text) \o FoundIn(riyadh_neighborhoods, text)
        found_types == FoundIn(detect_property_types, text)
        money_matches == MoneyFindAll(text, 1, detect_money_units)
        name == DetectPerson(text, 1)
    IN  DictOf({ <<"LOC", NonEmpty(locations)>>,
                 <<"PROPERTY_TYPE", NonEmpty(found_types)>>,
                 <<"MONEY", NonEmpty(money_matches)>>,
                 <<"PERSON", name>>,
                 <<"BEDROOMS", DetectBedrooms(text)>>,
                 <<"BATHROOMS", DetectBathrooms(text)>>,
                 <<"AREA", DetectArea(text)>> })

(***************************************************************************)
(* text_processing.py: the rule-based pass, extract_entities and           *)
(* extract_preferences.                                                    *)
(***************************************************************************)
location_prefixes ==
    <<
      <<1601, 1610, 32>>,    \* "في "
      <<1605, 1606, 1591, 1602, 1577, 32>>,    \* "منطقة "
      <<1581, 1610, 32>>,    \* "حي "
      <<1605, 1583, 1610, 1606, 1577, 32>>    \* "مدينة "
    >>

rule_money_units ==
    <<
      <<1585, 1610, 1575, 1604>>,    \* "ريال"
      <<1575, 1604, 1601>>,    \* "الف"
      <<1605, 1604, 1610, 1608, 1606>>,    \* "مليون"
      <<1571, 1604, 1601>>,    \* "ألف"
      <<1585, 46, 1587>>,    \* "ر.س"
      <<1580, 1606, 1610, 1607>>    \* "جنيه"
    >>

rule_property_types ==
    <<
      <<1588, 1602, 1577>>,    \* "شقة"
      <<1601, 1610, 1604, 1575>>,    \* "فيلا"
      <<1605, 1606, 1586, 1604>>,    \* "منزل"
      <<1583, 1608, 1576, 1604, 1603, 1587>>,    \* "دوبلكس"
      <<1575, 1587, 1578, 1608, 1583, 1610, 1608>>,    \* "استوديو"
      <<1576, 1606, 1578, 1607, 1575, 1608, 1587>>,    \* "بنتهاوس"
      <<1605, 1603, 1578, 1576>>,    \* "مكتب"
      <<1605, 1581, 1604>>    \* "محل"
    >>

rule_features ==
    <<
      <<1581, 1583, 1610, 1602, 1577>>,    \* "حديقة"
      <<1605, 1587, 1576, 1581>>,    \* "مسبح"
      <<1578, 1603, 1610, 1610, 1601>>,    \* "تكييف"
      <<1605, 1601, 1585, 1608, 1588>>,    \* "مفروش"
      <<1605, 1591, 1576, 1582>>,    \* "مطبخ"
      <<1588, 1585, 1601, 1577>>,    \* "شرفة"
      <<1605, 1608, 1602, 1601>>,    \* "موقف"
      <<1580, 1585, 1575, 1580>>,    \* "جراج"
      <<1605, 1589, 1593, 1583>>,    \* "مصعد"
      <<1571, 1605, 1606>>    \* "أمن"
    >>

rule_person_prefixes ==
    <<
      <<1575, 1587, 1605, 1610, 32>>,    \* "اسمي "
      <<1571, 1606, 1575, 32>>    \* "أنا "
    >>

room_words ==
    <<
      <<1594, 1585, 1601>>,    \* "غرف"
      <<1594, 1585, 1601, 1577>>    \* "غرفة"
    >>

\* [match.strip() for match in matches if len(match.strip()) > 2]
RECURSIVE StripLong(_)
StripLong(matches) ==
    IF matches = <<>> THEN <<>>
    ELSE IF Len(Strip(Head(matches))) > 2
    THEN <<Strip(Head(matches))>> \o StripLong(Tail(matches))
    ELSE StripLong(Tail(matches))

\* the loop over a list of lazy patterns from pattern j on
RECURSIVE LazyAll(_, _, _)
LazyAll(t, prefixes, j) ==
    IF j > Len(prefixes) THEN <<>>
    ELSE StripLong(LazyFindAll(t, 1, prefixes[j], "space_word")) \o LazyAll(t, prefixes, j + 1)

\* \b(\d+)\b matches the digit run starting at i
NumberMatchAt(t, i) ==
    /\ IsDigit(t[i])
    /\ i = 1 \/ ~IsWord(t[i - 1])
    /\ RunEnd(t, i, IsDigit) > Len(t) \/ ~IsWord(t[RunEnd(t, i, IsDigit)])

RECURSIVE NumberFindAll(_, _)
NumberFindAll(t, pos) ==
    LET starts == {i \in pos..Len(t) : NumberMatchAt(t, i)}
    IN  IF starts = {} THEN <<>>
        ELSE <<Slice(t, Min(starts), RunEnd(t, Min(starts), IsDigit))>>
             \o NumberFindAll(t, RunEnd(t, Min(starts), IsDigit))

rule_based_entity_extraction(text) ==
    LET locations == LazyAll(text, location_prefixes, 1)
        money_matches == MoneyFindAll(text, 1, rule_money_units)
        number_matches == NumberFindAll(text, 1)
        found_types == FoundIn(rule_property_types, text)
        found_features == FoundIn(rule_features, text)
        persons == LazyAll(text, rule_person_prefixes, 1)
    IN  DictOf({ <<"LOC", NonEmpty(locations)>>,
                 <<"MONEY", NonEmpty(money_matches)>>,
                 <<"NUMBER", NonEmpty(number_matches)>>,
                 <<"PROPERTY_TYPE", NonEmpty(found_types)>>,
                 <<"FEATURE", NonEmpty(found_features)>>,
                 <<"PERSON", NonEmpty(persons)>> })

\* a faulty variant of extract_entities: the rule-based pass fills in the
\* kinds the gazetteer pass did not find
extract_entities_merged(text) ==
    DictUpdate(rule_based_entity_extraction(normalize_arabic_text(text)),
               detect_arabic_entities(normalize_arabic_text(text)))

\* the rule-based pass runs only when the gazetteer pass found nothing
extract_entities(text) ==
    LET Detected(entities, rule_based) ==
            IF DOMAIN entities = {} THEN rule_based ELSE entities
        Normalized(normalized_text) ==
            Detected(detect_arabic_entities(normalized_text),
                     rule_based_entity_extraction(normalized_text))
    IN  Normalized(normalize_arabic_text(text))

extract_preferences(text) ==
    LET Preferences(entities) ==
            DictOf({ <<"location",
                       IF "LOC" \in DOMAIN entities THEN <<entities["LOC"][1]>> ELSE <<>> >>,
                     <<"budget",
                       IF "MONEY" \in DOMAIN entities THEN <<entities["MONEY"][1]>> ELSE <<>> >>,
                     <<"property_type",
                       IF "PROPERTY_TYPE" \in DOMAIN entities
                       THEN <<entities["PROPERTY_TYPE"][1]>> ELSE <<>> >>,
                     <<"bedrooms",
                       IF "NUMBER" \in DOMAIN entities /\ ContainsAny(text, room_words)
                       THEN <<entities["NUMBER"][1]>> ELSE <<>> >>,
                     <<"features",
                       IF "FEATURE" \in DOMAIN entities
                       THEN <<entities["FEATURE"]>> ELSE <<>> >> })
    IN  Preferences(extract_entities(text))

(***************************************************************************)
(* reasoning.py: Reasoning.                                                *)
(***************************************************************************)
\* _init_phase_transition_rules
phase_transition_rules ==
    [DISCOVERY |->
        [conditions |->
            << [type |-> "information_complete",
                fields |-> <<"location", "budget", "property_type">>],
               [type |-> "message_count", min_count |-> 1] >>,
         next_phase |-> "SUMMARY"],
     \* ['نعم', 'صحيح', 'موافق', 'تمام']
     SUMMARY |->
        [conditions |->
            << [type |-> "confirmation",
                keywords |-> <<
                    <<1606, 1593, 1605>>,
                    <<1589, 1581, 1610, 1581>>,
                    <<1605, 1608, 1575, 1601, 1602>>,
                    <<1578, 1605, 1575, 1605>>
                >>] >>,
         next_phase |-> "SUGGESTION"],
     \* ['أعجبني', 'مهتم', 'رائع', 'جيد', 'تمام', 'أيوه', 'موافق']
     SUGGESTION |->
        [conditions |->
            << [type |-> "property_selection",
                keywords |-> <<
                    <<1571, 1593, 1580, 1576, 1606, 1610>>,
                    <<1605, 1607, 1578, 1605>>,
                    <<1585, 1575, 1574, 1593>>,
                    <<1580, 1610, 1583>>,
                    <<1578, 1605, 1575, 1605>>,
                    <<1571, 1610, 1608, 1607>>,
                    <<1605, 1608, 1575, 1601, 1602>>
                >>] >>,
         next_phase |-> "PERSUASION"],
     \* ['لكن', 'مشكلة', 'قلق', 'لا أحب', 'غالي']
     PERSUASION |->
        [conditions |->
            << [type |-> "objection",
                keywords |-> <<
                    <<1604, 1603, 1606>>,
                    <<1605, 1588, 1603, 1604, 1577>>,
                    <<1602, 1604, 1602>>,
                    <<1604, 1575, 32, 1571, 1581, 1576>>,
                    <<1594, 1575, 1604, 1610>>
                >>] >>,
         next_phase |-> "ALTERNATIVE"],
     \* ['مهتم', 'جيد', 'أفضل', 'يعجبني']
     ALTERNATIVE |->
        [conditions |->
            << [type |-> "interest",
                keywords |-> <<
                    <<1605, 1607, 1578, 1605>>,
                    <<1580, 1610, 1583>>,
                    <<1571, 1601, 1590, 1604>>,
                    <<1610, 1593, 1580, 1576, 1606, 1610>>
                >>] >>,
         next_phase |-> "URGENCY"],
     \* ['أريد', 'الآن', 'متى', 'كيف', 'إجراءات']
     URGENCY |->
        [conditions |->
            << [type |-> "intent_to_proceed",
                keywords |-> <<
                    <<1571, 1585, 1610, 1583>>,
                    <<1575, 1604, 1570, 1606>>,
                    <<1605, 1578, 1609>>,
                    <<1603, 1610, 1601>>,
                    <<1573, 1580, 1585, 1575, 1569, 1575, 1578>>
                >>] >>,
         next_phase |-> "CLOSING"],
     CLOSING |->
        [conditions |->
            << [type |-> "information_provided", fields |-> <<"contact_name", "phone_number">>] >>,
         next_phase |-> None]]

\* the utterances of the two overrides in analyze
go_back_utterances ==
    <<
      <<1575, 1585, 1580, 1593>>,    \* "ارجع"
      <<1575, 1585, 1580, 1593, 32, 1582, 1591, 1608, 1577>>,    \* "ارجع خطوة"
      <<1585, 1580, 1593, 1606, 1610>>,    \* "رجعني"
      <<1593, 1608, 1583, 1577>>    \* "عودة"
    >>

confused_utterances ==
    <<
      <<1605, 1588, 32, 1601, 1575, 1607, 1605>>,    \* "مش فاهم"
      <<1605, 1588, 32, 1608, 1575, 1590, 1581>>,    \* "مش واضح"
      <<1594, 1604, 1591>>,    \* "غلط"
      <<1605, 1588, 32, 1605, 1601, 1607, 1608, 1605>>    \* "مش مفهوم"
    >>

\* x in l, for a list l
InList(x, l) == \E j \in 1..Len(l) : l[j] = x

IsGoBack(message) == InList(Strip(message), go_back_utterances)

\* a faulty variant of IsConfused: the confused utterances are not recognised
IsConfused_never(message) == FALSE

IsConfused(message) == InList(Strip(message), confused_utterances)

\* faulty variants of _get_previous_phase: the index current_idx - 1 is used
\* without the clamp, so that in the first phase it is Python's index -1, the
\* last phase; and the phase is returned as it is
get_previous_phase_wraps(current_phase) ==
    LET current_idx == PhaseIndex(current_phase)
    IN  ConversationPhase[IF current_idx - 1 >= 1 THEN current_idx - 1
                          ELSE Len(ConversationPhase)]

get_previous_phase_stays(current_phase) == current_phase

\* a faulty variant of _get_previous_phase: the first phase is returned
get_previous_phase_first(current_phase) == ConversationPhase[1]

\* _get_previous_phase
get_previous_phase(current_phase) ==
    LET current_idx == PhaseIndex(current_phase)
    IN  ConversationPhase[IF current_idx - 1 >= 1 THEN current_idx - 1 ELSE 1]

\* phone pattern (\+?\d{1,3}[-.\s]?)?\(?\d{3}\)?[-.\s]?\d{3}[-.\s]?\d{4}
IsPhoneSep(c) == c \in {45, 46} \/ IsSpace(c)

\* \d{n} at p
DigitsAt(t, p, n) == p + n - 1 <= Len(t) /\ \A k \in p..(p + n - 1) : IsDigit(t[k])

\* c at p
CharAt(t, p, c) == p <= Len(t) /\ t[p] = c

\* the pattern after its optional group matches at p, for some choice of its
\* optional parts (a: the opening bracket, b: the closing one, c, d: the
\* separators)
PhoneRestAt(t, p) ==
    \E a \in 0..1, b \in 0..1, c \in 0..1, d \in 0..1 :
        /\ a = 1 => CharAt(t, p, 40)
        /\ DigitsAt(t, p + a, 3)
        /\ b = 1 => CharAt(t, p + a + 3, 41)
        /\ c = 1 => (p + a + 3 + b <= Len(t) /\ IsPhoneSep(t[p + a + 3 + b]))
        /\ DigitsAt(t, p + a + 3 + b + c, 3)
        /\ d = 1 => (p + a + 6 + b + c <= Len(t) /\ IsPhoneSep(t[p + a + 6 + b + c]))
        /\ DigitsAt(t, p + a + 6 + b + c + d, 4)

\* the ways the optional group (\+?\d{1,3}[-.\s]?) can match at i, as its
\* length, in the order the backtracking tries them: the sign if there is
\* one, then 3, 2, 1 digits, each with and then without a separator
PhoneGroupTries(t, i) ==
    LET s == IF CharAt(t, i, 43) THEN 1 ELSE 0
        Try(k, sep) ==
            IF /\ DigitsAt(t, i + s, k)
               /\ sep = 1 => (i + s + k <= Len(t) /\ IsPhoneSep(t[i + s + k]))
               /\ PhoneRestAt(t, i + s + k + sep)
            THEN <<s + k + sep>> ELSE <<>>
    IN  Try(3, 1) \o Try(3, 0) \o Try(2, 1) \o Try(2, 0) \o Try(1, 1) \o Try(1, 0)

PhoneMatchAt(t, i) == PhoneGroupTries(t, i) # <<>> \/ PhoneRestAt(t, i)

\* re.findall(phone pattern, message)[:1]: the group of the leftmost match,
\* '' when the match does not use the group; <<>> when nothing matches
PhoneFirst(message) ==
    LET starts == {i \in 1..Len(message) : PhoneMatchAt(message, i)}
    IN  IF starts = {} THEN <<>>
        ELSE LET i == Min(starts)
                 Group(tries) ==
                     IF tries # <<>> THEN <<Slice(message, i, i + tries[1])>> ELSE << <<>> >>
             IN  Group(PhoneGroupTries(message, i))

\* email pattern [a-zA-Z0-9._%+-]+@[a-zA-Z0-9.-]+\.[a-zA-Z]{2,}
IsLetter(c) == c \in 65..90 \/ c \in 97..122

IsEmailLocal(c) == IsLetter(c) \/ c \in 48..57 \/ c \in {46, 95, 37, 43, 45}

IsEmailDomain(c) == IsLetter(c) \/ c \in 48..57 \/ c \in {46, 45}

\* with the local part starting at i: the indices q of a dot that can end the
\* domain, i.e. after the "@" that follows the greedy local part, at least one
\* domain character, the dot, and at least two letters
EmailDots(t, i) ==
    LET at == RunEnd(t, i, IsEmailLocal)
        dom == RunEnd(t, at + 1, IsEmailDomain)
    IN  IF ~(IsEmailLocal(t[i]) /\ CharAt(t, at, 64)) THEN {}
        ELSE {q \in (at + 2)..(dom - 1) : t[q] = 46 /\ RunEnd(t, q + 1, IsLetter) >= q + 3}

\* re.findall(email pattern, message)[:1]: the leftmost match, with the
\* greedy domain ending at the last possible dot
EmailFirst(message) ==
    LET starts == {i \in 1..Len(message) : EmailDots(message, i) # {}}
    IN  IF starts = {} THEN <<>>
        ELSE LET i == Min(starts)
                 q == CHOOSE x \in EmailDots(message, i) : \A y \in EmailDots(message, i) : y <= x
             IN  <<Slice(message, i, RunEnd(message, q + 1, IsLetter))>>

\* a faulty variant of _extract_information: the preferences are extracted in
\* every phase
extract_information_every_phase(message, current_phase) == extract_preferences(message)

\* _extract_information
extract_information(message, current_phase) ==
    LET Extracted(entities, preferences, phone_match, email_match) ==
            IF current_phase = "DISCOVERY" THEN preferences
            ELSE IF current_phase = "CLOSING"
            THEN DictOf({ <<"contact_name",
                            IF "PERSON" \in DOMAIN entities
                            THEN <<entities["PERSON"]>> ELSE <<>> >>,
                          <<"phone_number", phone_match>>,
                          <<"email", email_match>> })
            ELSE EmptyDict
    IN  Extracted(extract_entities(message), extract_preferences(message),
                  PhoneFirst(message), EmailFirst(message))

(***************************************************************************)
(* What the text functions above give on each message of the model,        *)
(* computed once.                                                          *)
(***************************************************************************)
\* every keyword of the transition table
rule_keywords ==
    UNION { UNION { IF "keywords" \in DOMAIN phase_transition_rules[p].conditions[j]
                    THEN {phase_transition_rules[p].conditions[j].keywords[k] :
                              k \in 1..Len(phase_transition_rules[p].conditions[j].keywords)}
                    ELSE {}
                    : j \in 1..Len(phase_transition_rules[p].conditions) }
            : p \in Phases }

\* the three scans of _basic_info_extraction on a message
FoundSlots(message) ==
    [location |-> LocationIn(message),
     budget |-> BudgetIn(message),
     property_type |-> PropertyTypeIn(message)]

\* the slots _basic_info_extraction finds in the message
message_slots == [m \in Messages |-> FoundSlots(m)]

\* _is_reference_to_previous_property on the message
message_is_reference == [m \in Messages |-> is_reference_to_previous_property(m)]

\* _extract_filters_from_query on the message
message_query_filters == [m \in Messages |-> extract_filters_from_query(m)]

\* the two tests analyze makes on the stripped message
message_overrides == [m \in Messages |-> [go_back |-> IsGoBack(m), confused |-> IsConfused(m)]]

\* _extract_information on the message in each phase
message_extracted_info ==
    [m \in Messages |-> [p \in Phases |-> extract_information(m, p)]]

\* the keywords of the transition table that message.lower() contains
message_keywords == [m \in Messages |-> {w \in rule_keywords : Contains(Lower(m), w)}]

(***************************************************************************)
(* agent.py: _basic_info_extraction, on the profile: each slot is written  *)
(* only when the profile does not have it.                                 *)
(***************************************************************************)
\* a faulty variant of SetIfAbsent: the slot is written whenever the scan
\* finds a value
SetIfAbsent_overwrites(user_info, slot, found) ==
    IF found # <<>> THEN DictSet(user_info, slot, found[1]) ELSE user_info

\* if <found> and slot not in self.user_info: self.user_info[slot] = value
SetIfAbsent(user_info, slot, found) ==
    IF found # <<>> /\ slot \notin DOMAIN user_info
    THEN DictSet(user_info, slot, found[1])
    ELSE user_info

\* the three guarded writes, on the values the scans found
ScanInto(user_info, slots) ==
    SetIfAbsent(SetIfAbsent(SetIfAbsent(user_info, "location", slots.location),
                            "budget", slots.budget),
                "property_type", slots.property_type)

basic_info_extraction(message, user_info) == ScanInto(user_info, message_slots[message])

(***************************************************************************)
(* retrieval.py: retrieve and _get_matching_properties.                    *)
(***************************************************************************)
\* a faulty variant of matching_filters: the profile is applied after the
\* query's own filters
matching_filters_profile_last(query, context) ==
    DictUpdate(message_query_filters[query],
               ProfileFilters(IF "user_info" \in DOMAIN context THEN context["user_info"]
                              ELSE EmptyDict))

\* _get_matching_properties, lines 36-54: the filters it builds, from the
\* profile first and then from the query
matching_filters(query, context) ==
    DictUpdate(ProfileFilters(IF "user_info" \in DOMAIN context THEN context["user_info"]
                              ELSE EmptyDict),
               message_query_filters[query])

get_matching_properties(query, context) ==
    get_properties(csv_properties, matching_filters(query, context), retrieve_limit)

\* a faulty variant of retrieve: the field is set whatever the lookup gives
retrieve_always(query, phase, context) ==
    [phase_knowledge |-> get_phase_knowledge(phase),
     relevant_properties |-> get_matching_properties(query, context)]

retrieve(query, phase, context) ==
    LET result == [phase_knowledge |-> get_phase_knowledge(phase)]
        Result(property_results) ==
            IF property_results # <<>>
            THEN [phase_knowledge |-> result.phase_knowledge,
                  relevant_properties |-> property_results]
            ELSE result
    IN  Result(get_matching_properties(query, context))

(***************************************************************************)
(* reasoning.py: _check_phase_transition and analyze.                      *)
(***************************************************************************)
keyword_conditions ==
    {"confirmation", "property_selection", "objection", "interest", "intent_to_proceed"}

\* all(f in d and d[f] for f in fields)
AllFieldsTruthy(d, fields) ==
    \A j \in 1..Len(fields) : fields[j] \in DOMAIN d /\ Truthy(d[fields[j]])

\* a faulty variant of ConditionHolds: information_provided looks at the
\* profile with the delta merged in
ConditionHolds_accumulated(condition, message, extracted_info, conversation_history, context) ==
    IF condition.type = "information_complete"
    THEN LET user_info == IF "user_info" \in DOMAIN context
                          THEN context["user_info"] ELSE EmptyDict
             combined == DictUpdate(user_info, extracted_info)
         IN  AllFieldsTruthy(combined, condition.fields)
    ELSE IF condition.type = "message_count"
    THEN ~(Len(conversation_history) < condition.min_count * 2)
    ELSE IF condition.type \in keyword_conditions
    THEN \E k \in 1..Len(condition.keywords) :
             condition.keywords[k] \in message_keywords[message]
    ELSE IF condition.type = "information_provided"
    THEN AllFieldsTruthy(DictUpdate(context["user_info"], extracted_info), condition.fields)
    ELSE TRUE

\* a faulty variant of ConditionHolds: information_complete is content with
\* one of its fields
ConditionHolds_some_field(condition, message, extracted_info, conversation_history, context) ==
    IF condition.type = "information_complete"
    THEN LET user_info == IF "user_info" \in DOMAIN context
                          THEN context["user_info"] ELSE EmptyDict
             combined == DictUpdate(user_info, extracted_info)
         IN  \E j \in 1..Len(condition.fields) :
                 AllFieldsTruthy(combined, <<condition.fields[j]>>)
    ELSE IF condition.type = "message_count"
    THEN ~(Len(conversation_history) < condition.min_count * 2)
    ELSE IF condition.type \in keyword_conditions
    THEN \E k \in 1..Len(condition.keywords) :
             condition.keywords[k] \in message_keywords[message]
    ELSE IF condition.type = "information_provided"
    THEN AllFieldsTruthy(extracted_info, condition.fields)
    ELSE TRUE

\* a faulty variant of ConditionHolds: message_count asks for min_count
\* full exchanges before the one under way
ConditionHolds_full_exchanges(condition, message, extracted_info, conversation_history, context) ==
    IF condition.type = "information_complete"
    THEN LET user_info == IF "user_info" \in DOMAIN context
                          THEN context["user_info"] ELSE EmptyDict
             combined == DictUpdate(user_info, extracted_info)
         IN  AllFieldsTruthy(combined, condition.fields)
    ELSE IF condition.type = "message_count"
    THEN ~(Len(conversation_history) - 1 < (condition.min_count + 1) * 2)
    ELSE IF condition.type \in keyword_conditions
    THEN \E k \in 1..Len(condition.keywords) :
             condition.keywords[k] \in message_keywords[message]
    ELSE IF condition.type = "information_provided"
    THEN AllFieldsTruthy(extracted_info, condition.fields)
    ELSE TRUE

\* one iteration of the loop over the rule's conditions: the condition holds
ConditionHolds(condition, message, extracted_info, conversation_history, context) ==
    IF condition.type = "information_complete"
    THEN LET user_info == IF "user_info" \in DOMAIN context
                          THEN context["user_info"] ELSE EmptyDict
             combined == DictUpdate(user_info, extracted_info)
         IN  AllFieldsTruthy(combined, condition.fields)
    ELSE IF condition.type = "message_count"
    THEN ~(Len(conversation_history) < condition.min_count * 2)
    ELSE IF condition.type \in keyword_conditions
    THEN \E k \in 1..Len(condition.keywords) :
             condition.keywords[k] \in message_keywords[message]
    ELSE IF condition.type = "information_provided"
    THEN AllFieldsTruthy(extracted_info, condition.fields)
    ELSE TRUE

\* a faulty variant of _check_phase_transition: one condition that holds is
\* enough
check_phase_transition_any(current_phase, message, extracted_info, conversation_history, context) ==
    LET rules == phase_transition_rules[current_phase]
        any_met == \E j \in 1..Len(rules.conditions) :
                       ConditionHolds(rules.conditions[j], message, extracted_info,
                                      conversation_history, context)
    IN  IF any_met /\ rules.next_phase # current_phase
        THEN <<TRUE, rules.next_phase>>
        ELSE <<FALSE, None>>

\* _check_phase_transition: <<should_change_phase, next_phase>>
check_phase_transition(current_phase, message, extracted_info, conversation_history, context) ==
    LET rules == phase_transition_rules[current_phase]
        all_met == \A j \in 1..Len(rules.conditions) :
                       ConditionHolds(rules.conditions[j], message, extracted_info,
                                      conversation_history, context)
    IN  IF all_met /\ rules.next_phase # current_phase
        THEN <<TRUE, rules.next_phase>>
        ELSE <<FALSE, None>>

\* analyze: the fields of the result that decide the turn, and the intent the
\* two overrides report ("classified" stands for the label analyze_intent
\* gives on the other branch)
analyze(message, current_phase, conversation_history, relevant_knowledge, context) ==
    IF message_overrides[message].go_back
    THEN [extracted_info |-> EmptyDict, intent |-> "fallback",
          should_change_phase |-> TRUE,
          next_phase |-> get_previous_phase(current_phase)]
    ELSE IF message_overrides[message].confused
    THEN [extracted_info |-> EmptyDict, intent |-> "confused",
          should_change_phase |-> FALSE,
          next_phase |-> current_phase]
    ELSE LET Result(extracted_info, transition) ==
                 [extracted_info |-> extracted_info, intent |-> "classified",
                  should_change_phase |-> transition[1],
                  next_phase |-> transition[2]]
             Extracted(extracted_info) ==
                 Result(extracted_info,
                        check_phase_transition(current_phase, message, extracted_info,
                                               conversation_history, context))
         IN  Extracted(message_extracted_info[message][current_phase])

\* a faulty variant of analyze_leaves: the extracted delta is merged into the
\* caller's profile
analyze_leaves_merged(message, current_phase, conversation_history, relevant_knowledge, context) ==
    [current_phase |-> current_phase,
     conversation_history |-> conversation_history,
     context |-> [user_info |-> DictUpdate(context.user_info,
                                           message_extracted_info[message][current_phase])]]

\* the objects analyze is handed, as it leaves them: the caller's phase, the
\* history list and the context with the profile.  analyze and its helpers
\* only read them (_check_phase_transition builds combined as a new dict)
analyze_leaves(message, current_phase, conversation_history, relevant_knowledge, context) ==
    [current_phase |-> current_phase,
     conversation_history |-> conversation_history,
     context |-> context]

\* the functions analyze calls, in call order
AnalyzeCalls(message) ==
    IF message_overrides[message].go_back THEN <<"_get_previous_phase">>
    ELSE IF message_overrides[message].confused THEN <<>>
    ELSE <<"_extract_information", "_check_phase_transition">>

(***************************************************************************)
(* phase_manager.py: PhaseManager.set_current_phase, on the manager's      *)
(* phase.                                                                  *)
(***************************************************************************)
\* a faulty variant of set_current_phase: the manager keeps the phase it has
set_current_phase_keeps(current_phase, new_phase) == current_phase

set_current_phase(current_phase, new_phase) ==
    IF current_phase = new_phase THEN current_phase ELSE new_phase

(***************************************************************************)
(* agent.py: the replies.  A reply is the template that produced it with   *)
(* the values it was filled with; the text generator is an outside         *)
(* capability that returns some text or raises.                            *)
(***************************************************************************)
\* the texts generate_arabic_response may return
GenTexts == {"generated_text"}

word_million == <<1605, 1604, 1610, 1608, 1606>>    \* "مليون"
word_thousand == <<1571, 1604, 1601>>    \* "ألف"
text_unclear == <<1594, 1610, 1585, 32, 1608, 1575, 1590, 1581>>    \* "غير واضح"

\* a value of the refers_to slot: a listing (dict) or a text
Dict(d) == [type |-> "dict", value |-> d]

\* re.findall(r'\d+', t)[:1]
FirstDigitRun(t) ==
    LET starts == {i \in 1..Len(t) : IsDigit(t[i])}
    IN  IF starts = {} THEN <<>>
        ELSE <<Slice(t, Min(starts), RunEnd(t, Min(starts), IsDigit))>>

\* [r["response"] for r in rules["budget_advice"] if r["condition"] == cond]
RECURSIVE BudgetResponses(_, _)
BudgetResponses(rs, cond) ==
    IF rs = <<>> THEN <<>>
    ELSE IF Head(rs).condition = cond THEN <<Head(rs).response>> \o BudgetResponses(Tail(rs), cond)
    ELSE BudgetResponses(Tail(rs), cond)

\* the budget branch of _apply_rule_logic; a budget with the thousand word and
\* no digit raises inside the try and adds nothing
BudgetAdvice(user_info) ==
    LET budget_val == IF "budget" \in DOMAIN user_info THEN user_info["budget"] ELSE <<>>
        run == FirstDigitRun(budget_val)
    IN  IF Contains(budget_val, word_million)
        THEN BudgetResponses(rules_data.budget_advice, "budget_high")
        ELSE IF Contains(budget_val, word_thousand) /\ run # <<>>
        THEN BudgetResponses(rules_data.budget_advice,
                             IF ToInt(run[1]) < 500 THEN "budget_low" ELSE "budget_mid")
        ELSE <<>>

\* [f.strip() for f in t.split(sep)], sep a character
RECURSIVE SplitStrip(_, _)
SplitStrip(t, sep) ==
    LET at == {i \in 1..Len(t) : t[i] = sep}
    IN  IF at = {} THEN <<Strip(t)>>
        ELSE <<Strip(Slice(t, 1, Min(at)))>> \o SplitStrip(Slice(t, Min(at) + 1, Len(t) + 1), sep)

\* for rule in rules["property_priority"]: if rule["feature"] in f: append
RECURSIVE PriorityResponses(_, _)
PriorityResponses(rs, f) ==
    IF rs = <<>> THEN <<>>
    ELSE IF Contains(f, Head(rs).feature) THEN <<Head(rs).response>> \o PriorityResponses(Tail(rs), f)
    ELSE PriorityResponses(Tail(rs), f)

RECURSIVE FeatureAdvice(_)
FeatureAdvice(features) ==
    IF features = <<>> THEN <<>>
    ELSE PriorityResponses(rules_data.property_priority, Head(features))
         \o FeatureAdvice(Tail(features))

\* _apply_rule_logic up to its last step; property_data is <<listing>> or <<>>
RuleAdvice(user_info, property_data) ==
    LET features == IF property_data # <<>> /\ "features" \in DOMAIN property_data[1]
                    THEN SplitStrip(property_data[1].features, 1548)
                    ELSE IF "features" \in DOMAIN user_info THEN user_info["features"]
                    ELSE <<>>
    IN  BudgetAdvice(user_info) \o FeatureAdvice(features)

\* _apply_rule_logic: with no advice from the rules the generator is asked
\* for one; generated is the text it returns
apply_rule_logic(user_info, property_data, generated) ==
    IF RuleAdvice(user_info, property_data) = <<>> THEN <<generated>>
    ELSE RuleAdvice(user_info, property_data)

\* not user_info.get(k)
Missing(user_info, k) == ~(k \in DOMAIN user_info /\ Truthy(user_info[k]))

Present(user_info, k) == k \in DOMAIN user_info

core_slots == <<"location", "budget", "property_type">>

\* _discovery_response
discovery_response(user_info, knowledge) ==
    LET missing == LET NotGiven(k) == Missing(user_info, k) IN SelectSeq(core_slots, NotGiven)
        pk == knowledge.phase_knowledge
        suggestions == IF "suggested_questions" \in DOMAIN pk THEN pk.suggested_questions ELSE <<>>
    IN  IF missing # <<>>
        THEN [template |-> "discovery_ask", missing |-> missing,
              example |-> IF suggestions # <<>> THEN <<suggestions[1]>> ELSE <<>>]
        ELSE [template |-> "discovery_complete"]

\* _summary_response
summary_response(user_info, generated) ==
    LET parts == LET Given(k) == Present(user_info, k) IN SelectSeq(core_slots, Given)
    IN  [template |-> "summary",
         parts |-> [j \in 1..Len(parts) |-> <<parts[j], user_info[parts[j]]>>],
         advice |-> apply_rule_logic(user_info, <<>>, generated)]

RelevantProperties(knowledge) ==
    IF "relevant_properties" \in DOMAIN knowledge THEN knowledge.relevant_properties ELSE <<>>

\* _suggest_properties
suggest_properties(user_info, knowledge, generated) ==
    LET props == RelevantProperties(knowledge)
    IN  IF props = <<>> THEN [template |-> "generated", text |-> generated]
        ELSE [template |-> "suggestion", props |-> props,
              extras |-> apply_rule_logic(user_info, <<props[1]>>, generated)]

\* referred and isinstance(referred, dict)
RefersToListing(user_info) ==
    "refers_to" \in DOMAIN user_info /\ user_info["refers_to"].type = "dict"

\* _generate_response: the reply when the generator, if asked, returns
\* generated
generate_response(phase, user_info, relevant_knowledge, generated) ==
    IF phase = "DISCOVERY" THEN discovery_response(user_info, relevant_knowledge)
    ELSE IF phase = "SUMMARY" THEN summary_response(user_info, generated)
    ELSE IF phase = "SUGGESTION" THEN suggest_properties(user_info, relevant_knowledge, generated)
    ELSE IF phase = "PERSUASION"
    THEN IF RefersToListing(user_info)
         THEN [template |-> "persuasion_referred",
               features |-> user_info["refers_to"].value.features,
               location |-> user_info["refers_to"].value.location]
         ELSE [template |-> "generated", text |-> generated]
    ELSE IF phase = "ALTERNATIVE" THEN [template |-> "alternative"]
    ELSE IF phase = "URGENCY" THEN [template |-> "urgency"]
    ELSE [template |-> "closing"]

\* the turn's reply asks generate_arabic_response for a text
CallsGenerator(phase, user_info, relevant_knowledge) ==
    IF phase = "SUMMARY" THEN RuleAdvice(user_info, <<>>) = <<>>
    ELSE IF phase = "SUGGESTION"
    THEN IF RelevantProperties(relevant_knowledge) = <<>> THEN TRUE
         ELSE RuleAdvice(user_info, <<RelevantProperties(relevant_knowledge)[1]>>) = <<>>
    ELSE IF phase = "PERSUASION" THEN ~RefersToListing(user_info)
    ELSE FALSE

\* _suggest_properties records the listings before it asks for advice
ShowsListings(phase, relevant_knowledge) ==
    phase = "SUGGESTION" /\ RelevantProperties(relevant_knowledge) # <<>>

(***************************************************************************)
(* The session: one agent with its phase manager and its history, and the  *)
(* chat boundary of main.py around it.                                     *)
(***************************************************************************)
VARIABLES
    start_phase,                   \* PhaseManager(start_phase=...)
    phase_manager_current_phase,   \* phase_manager.current_phase
    agent_current_phase,           \* agent.current_phase
    agent_user_info,               \* agent.user_info
    agent_context,                 \* agent.context: its keys ("user_info" refers to agent.user_info)
    agent_selected_properties,     \* agent.selected_properties
    agent_last_mentioned_property, \* agent.last_mentioned_property: <<>> for None, or <<listing>>
    history,                       \* conversation_history.history
    chat_history,                  \* the chat_history list of main.chat
    last_turn,                     \* the latest process_message call: <<>> before the first
    phase_trail                    \* the phases the agent has held: at construction, then after each call

\* a knowledge store and the text functions, used on their own
VARIABLES
    kb,                            \* a KnowledgeBase: <<>> before its construction
    kb_call,                       \* the latest call of one of its methods: <<>> before the first
    text_call                      \* the latest call of a text function: <<>> before the first

session_vars ==
    <<start_phase, phase_manager_current_phase, agent_current_phase, agent_user_info,
      agent_context, agent_selected_properties, agent_last_mentioned_property, history,
      chat_history, last_turn, phase_trail>>

\* two agents side by side
VARIABLES
    heap,                          \* the objects the two agents refer to, by identity
    alone                          \* each agent as its own messages alone would leave it

\* a second run of a session, and a PhaseManager called from outside the agent
VARIABLES
    replay,                        \* the agent of the second run: <<>> when there is none
    manager_calls                  \* the calls made on the manager from outside, in order

library_vars == <<kb, kb_call, text_call, heap, alone, replay, manager_calls>>

vars == <<session_vars, library_vars>>

\* the number of turns a run is followed for
MaxTurns == 2

\* PhaseManager.__init__, ConversationHistory.__init__, RealEstateAgent.__init__
InitSession ==
    /\ start_phase \in Phases
    /\ phase_manager_current_phase = start_phase
    /\ agent_current_phase = start_phase
    /\ agent_user_info = EmptyDict
    /\ agent_context = {}
    /\ agent_selected_properties = <<>>
    /\ agent_last_mentioned_property = <<>>
    /\ history = <<>>
    /\ chat_history = <<>>
    /\ last_turn = <<>>
    /\ phase_trail = <<start_phase>>


InitLibrary ==
    /\ kb = <<>>
    /\ kb_call = <<>>
    /\ text_call = <<>>
    /\ heap = <<>>
    /\ alone = <<>>
    /\ replay = <<>>
    /\ manager_calls = <<>>

Init == InitSession /\ InitLibrary
\* a faulty variant of add_message: the list is rebuilt from the new record
add_message_rebuilds(h, role, message) == <<[role |-> role, content |-> message]>>

\* a faulty variant of add_message: a generated reply with no text is not
\* recorded
add_message_skips_empty(h, role, message) ==
    IF role = "assistant" /\ message.template = "generated" /\ message.text = ""
    THEN h
    ELSE Append(h, [role |-> role, content |-> message])

\* history.add_message
add_message(h, role, message) == Append(h, [role |-> role, content |-> message])

\* faulty variants of the commit of process_message: the phase after the
\* current one is taken instead of the reported one; and a missing next phase
\* is read as the default phase
commit_next_phase_advances(current_phase, next_phase) ==
    IF next_phase # None /\ next_phase # current_phase
    THEN ConversationPhase[IF PhaseIndex(current_phase) < Len(ConversationPhase)
                           THEN PhaseIndex(current_phase) + 1
                           ELSE PhaseIndex(current_phase)]
    ELSE current_phase

commit_next_phase_defaults(current_phase, next_phase) ==
    IF next_phase = None THEN "DISCOVERY" ELSE next_phase

\* process_message: if next_phase and next_phase != self.current_phase, the
\* agent's phase becomes next_phase
commit_next_phase(current_phase, next_phase) ==
    IF next_phase # None /\ next_phase # current_phase THEN next_phase ELSE current_phase

\* a faulty variant of refers_to: the first listing retrieved on this turn
refers_to_retrieved(last_mentioned_property, relevant_knowledge) ==
    IF RelevantProperties(relevant_knowledge) # <<>>
    THEN Dict(RelevantProperties(relevant_knowledge)[1])
    ELSE Str(text_unclear)

\* process_message, line 114: self.last_mentioned_property or the default
\* text, taken before the reply of the turn is made
refers_to(last_mentioned_property, relevant_knowledge) ==
    IF last_mentioned_property # <<>> THEN Dict(last_mentioned_property[1])
    ELSE Str(text_unclear)

\* process_message, lines 109-119: the merge of the extracted delta, the
\* back-reference and the commit of the phase, on the values of the calls
\* before them.  analyze was handed the agent's own history list and profile
\* dict, so the agent goes on with them as analyze left them (analyzed)
TurnAnalyzed(agent, user_message, user_info1, relevant_knowledge, reasoning_result, analyzed) ==
    LET history1 == analyzed.conversation_history
        extracted_info == reasoning_result.extracted_info
        user_info2 == IF DOMAIN extracted_info # {}
                      THEN DictUpdate(analyzed.context.user_info, extracted_info)
                      ELSE analyzed.context.user_info
        user_info3 == IF message_is_reference[user_message]
                      THEN DictSet(user_info2, "refers_to",
                                   refers_to(agent.last_mentioned_property, relevant_knowledge))
                      ELSE user_info2
        phase2 == commit_next_phase(agent.current_phase, reasoning_result.next_phase)
    IN  [history |-> history1,
         analyze_user_info |-> user_info1,
         analyzed |-> analyzed,
         filters |-> matching_filters(user_message, [user_info |-> user_info1]),
         analyze_calls |-> AnalyzeCalls(user_message),
         user_info |-> user_info3,
         relevant_knowledge |-> relevant_knowledge,
         reasoning_result |-> reasoning_result,
         current_phase |-> phase2,
         phase_manager_current_phase |->
             IF phase2 # agent.current_phase
             THEN set_current_phase(agent.phase_manager_current_phase, phase2)
             ELSE agent.phase_manager_current_phase]

\* process_message, lines 101-107: analyze on the history with the user's
\* record and on the profile after _basic_info_extraction
TurnRetrieved(agent, user_message, user_info1, relevant_knowledge) ==
    TurnAnalyzed(agent, user_message, user_info1, relevant_knowledge,
                 analyze(user_message, agent.current_phase,
                         add_message(agent.history, "user", user_message),
                         relevant_knowledge, [user_info |-> user_info1]),
                 analyze_leaves(user_message, agent.current_phase,
                                add_message(agent.history, "user", user_message),
                                relevant_knowledge, [user_info |-> user_info1]))

\* process_message, lines 95-99: retrieve on the profile after
\* _basic_info_extraction
TurnExtracted(agent, user_message, user_info1) ==
    TurnRetrieved(agent, user_message, user_info1,
                  retrieve(user_message, agent.current_phase, [user_info |-> user_info1]))

\* process_message up to the reply: the values it computes on user_message
\* for an agent, given as the values of its attributes, of its manager's
\* phase and of its history
TurnOf(agent, user_message) ==
    TurnExtracted(agent, user_message, basic_info_extraction(user_message, agent.user_info))

\* the agent of the session
Agent ==
    [current_phase |-> agent_current_phase,
     phase_manager_current_phase |-> phase_manager_current_phase,
     user_info |-> agent_user_info,
     context |-> agent_context,
     selected_properties |-> agent_selected_properties,
     last_mentioned_property |-> agent_last_mentioned_property,
     history |-> history]

Turn(user_message) == TurnOf(Agent, user_message)

\* the functions a process_message call runs, in call order
TurnCalls(agent, user_message, t, returns) ==
    <<"add_user_message", "_basic_info_extraction", "retrieve", "get_properties", "analyze">>
    \o t.analyze_calls
    \o (IF t.current_phase # agent.current_phase THEN <<"set_current_phase">> ELSE <<>>)
    \o <<"_generate_response">>
    \o (IF CallsGenerator(t.current_phase, t.user_info, t.relevant_knowledge)
        THEN <<"generate_arabic_response">> ELSE <<>>)
    \o (IF returns THEN <<"add_assistant_message">> ELSE <<>>)

\* the attributes process_message has written when the reply is due,
\* _suggest_properties included (it records the listings before it asks for
\* advice), and the history with the user's record
AgentAfter(agent, t) ==
    [current_phase |-> t.current_phase,
     phase_manager_current_phase |-> t.phase_manager_current_phase,
     user_info |-> t.user_info,
     context |-> {"user_info"},
     selected_properties |->
         IF ShowsListings(t.current_phase, t.relevant_knowledge)
         THEN RelevantProperties(t.relevant_knowledge) ELSE agent.selected_properties,
     last_mentioned_property |->
         IF ShowsListings(t.current_phase, t.relevant_knowledge)
         THEN <<RelevantProperties(t.relevant_knowledge)[1]>>
         ELSE agent.last_mentioned_property,
     history |-> t.history]

\* what a process_message call leaves behind whether or not it returns
TurnCommon(user_message, t, returns) ==
    /\ agent_current_phase' = AgentAfter(Agent, t).current_phase
    /\ phase_manager_current_phase' = AgentAfter(Agent, t).phase_manager_current_phase
    /\ agent_user_info' = AgentAfter(Agent, t).user_info
    /\ agent_context' = AgentAfter(Agent, t).context
    /\ agent_selected_properties' = AgentAfter(Agent, t).selected_properties
    /\ agent_last_mentioned_property' = AgentAfter(Agent, t).last_mentioned_property
    /\ last_turn' = << [message |-> user_message,
                        phase_before |-> agent_current_phase,
                        history_before |-> history,
                        user_info_before |-> agent_user_info,
                        analyze_user_info |-> t.analyze_user_info,
                        analyzed |-> t.analyzed,
                        filters |-> t.filters,
                        relevant_knowledge |-> t.relevant_knowledge,
                        reasoning_result |-> t.reasoning_result,
                        calls |-> TurnCalls(Agent, user_message, t, returns),
                        returned |-> returns] >>
    /\ phase_trail' = Append(phase_trail, AgentAfter(Agent, t).current_phase)
    /\ UNCHANGED <<start_phase, kb, kb_call, text_call, heap, alone, manager_calls>>

\* a faulty variant of chat: a failure of process_message is not caught, and
\* the call ends without a reply
chat_propagates(user_input, chat_history_arg, outcome) ==
    IF outcome # <<>> THEN Append(chat_history_arg, <<user_input, outcome[1]>>)
    ELSE chat_history_arg

\* chat, on the outcome of process_message: <<response>> when it returns, <<>>
\* when it raises; the list with the pair of the turn appended
chat(user_input, chat_history_arg, outcome) ==
    Append(chat_history_arg,
           <<user_input, IF outcome # <<>> THEN outcome[1] ELSE [template |-> "error"]>>)

\* chat: process_message returns its reply; t holds the values of
\* Turn(user_message) in the current state
Replies(user_message, t) ==
    \E generated \in GenTexts :
        LET response == generate_response(t.current_phase, t.user_info,
                                          t.relevant_knowledge, generated)
        IN  /\ TurnCommon(user_message, t, TRUE)
            /\ history' = add_message(t.history, "assistant", response)
            /\ chat_history' = chat(user_message, chat_history, <<response>>)

\* chat: generate_arabic_response raises inside process_message, and chat
\* answers with the error text; t holds the values of Turn(user_message) in
\* the current state
Fails(user_message, t) ==
    /\ CallsGenerator(t.current_phase, t.user_info, t.relevant_knowledge)
    /\ TurnCommon(user_message, t, FALSE)
    /\ history' = t.history
    /\ chat_history' = chat(user_message, chat_history, <<>>)

\* a session of up to MaxTurns messages
ProcessMessageReturns(user_message, t) ==
    /\ Len(chat_history) < MaxTurns
    /\ Replies(user_message, t)
    /\ UNCHANGED replay

ProcessMessageRaises(user_message, t) ==
    /\ Len(chat_history) < MaxTurns
    /\ Fails(user_message, t)
    /\ UNCHANGED replay

Next ==
    \E user_message \in Messages :
        \/ ProcessMessageReturns(user_message, Turn(user_message))
        \/ ProcessMessageRaises(user_message, Turn(user_message))

Spec == Init /\ [][Next]_vars

(***************************************************************************)
(* A longer session with one user, started in DISCOVERY, who sends the     *)
(* full request, agrees and shows interest while objecting, or asks to go  *)
(* back.                                                                   *)
(***************************************************************************)
\* the number of turns such a session is followed for
MaxWalkTurns == 7

WalkMessages == {msg_full, msg_keen, msg_go_back}

WalkReturns(user_message, t) ==
    /\ Len(chat_history) < MaxWalkTurns
    /\ Replies(user_message, t)
    /\ UNCHANGED replay

WalkRaises(user_message, t) ==
    /\ Len(chat_history) < MaxWalkTurns
    /\ Fails(user_message, t)
    /\ UNCHANGED replay

WalkInit ==
    /\ start_phase = "DISCOVERY"
    /\ Init

WalkNext ==
    \E user_message \in WalkMessages :
        \/ WalkReturns(user_message, Turn(user_message))
        \/ WalkRaises(user_message, Turn(user_message))

WalkSpec == WalkInit /\ [][WalkNext]_vars
(***************************************************************************)
(* Properties of the session.                                              *)
(***************************************************************************)
\* the latest turn, once there is one
TurnTaken == last_turn # <<>>

\* the step is a process_message call
IsTurn == chat_history' # chat_history

\* the stripped message is one of the go-back utterances
GoBackMessage(message) == InList(Strip(message), go_back_utterances)

\* the stripped message is one of the confused utterances
ConfusedMessage(message) == InList(Strip(message), confused_utterances)

OverrideMessage(message) == GoBackMessage(message) \/ ConfusedMessage(message)

\* the phase before p in the order of the enum, the first phase for itself
PrecedingPhase(p) ==
    CASE p = "DISCOVERY" -> "DISCOVERY"
      [] p = "SUMMARY" -> "DISCOVERY"
      [] p = "SUGGESTION" -> "SUMMARY"
      [] p = "PERSUASION" -> "SUGGESTION"
      [] p = "ALTERNATIVE" -> "PERSUASION"
      [] p = "URGENCY" -> "ALTERNATIVE"
      [] p = "CLOSING" -> "URGENCY"

\* the conversation history analyze is given in the latest turn
AnalyzedHistory ==
    Append(last_turn[1].history_before, [role |-> "user", content |-> last_turn[1].message])

\* every condition of the rule of the latest turn's phase holds in that turn
AllConditionsHold ==
    LET rule == phase_transition_rules[last_turn[1].phase_before]
    IN  \A j \in 1..Len(rule.conditions) :
            ConditionHolds(rule.conditions[j], last_turn[1].message,
                           last_turn[1].reasoning_result.extracted_info, AnalyzedHistory,
                           [user_info |-> last_turn[1].analyze_user_info])

\* the latest turn was handled by the rule table in a phase with a next phase
TableTurn ==
    /\ TurnTaken
    /\ ~OverrideMessage(last_turn[1].message)
    /\ last_turn[1].phase_before # "CLOSING"

\* C1: the agent's phase is always one of the seven ConversationPhase values,
\* and a process_message call changes it only to the next_phase that analyze
\* reported in that call, which is then not None.
C1_PhaseChangesOnlyToReportedNextPhase ==
    /\ [](agent_current_phase \in Phases)
    /\ [][agent_current_phase' # agent_current_phase
          => /\ IsTurn
             /\ last_turn'[1].reasoning_result.next_phase # None
             /\ agent_current_phase' = last_turn'[1].reasoning_result.next_phase]_vars

\* an agent started in DISCOVERY has moved to SUMMARY in its latest turn
C1_Witness ==
    /\ TurnTaken
    /\ start_phase = "DISCOVERY"
    /\ last_turn[1].phase_before = "DISCOVERY"
    /\ agent_current_phase = "SUMMARY"

\* C2: on a turn without an override, in a phase P from DISCOVERY to URGENCY
\* whose rule names the next phase N, _check_phase_transition reports
\* (True, N) when every condition of P's rule holds and (False, None) when
\* one of them does not.
C2_TransitionIffAllConditionsHold ==
    TableTurn
    => LET rule == phase_transition_rules[last_turn[1].phase_before]
           result == last_turn[1].reasoning_result
       IN  /\ AllConditionsHold
              => result.should_change_phase = TRUE /\ result.next_phase = rule.next_phase
           /\ ~AllConditionsHold
              => result.should_change_phase = FALSE /\ result.next_phase = None

\* a DISCOVERY turn in which both conditions of the rule hold
C2_Witness ==
    /\ TableTurn
    /\ last_turn[1].phase_before = "DISCOVERY"
    /\ AllConditionsHold
    /\ last_turn[1].reasoning_result.should_change_phase = TRUE
    /\ last_turn[1].reasoning_result.next_phase = "SUMMARY"

\* the three slots the DISCOVERY rule asks for
discovery_fields == <<"location", "budget", "property_type">>

\* C3 (as claimed): when a turn without an override that is handled in
\* DISCOVERY returns with truthy location, budget and property_type in the
\* profile merged with the turn's extracted delta, the phase is SUMMARY, on
\* the first turn of a session as on any other.
C3_CompleteProfileLeavesDiscoveryInTheSameTurn ==
    /\ TurnTaken
    /\ last_turn[1].returned
    /\ last_turn[1].phase_before = "DISCOVERY"
    /\ ~OverrideMessage(last_turn[1].message)
    /\ AllFieldsTruthy(DictUpdate(last_turn[1].analyze_user_info,
                                  last_turn[1].reasoning_result.extracted_info),
                       discovery_fields)
    => agent_current_phase = "SUMMARY"

\* the contact fields of the CLOSING rule
contact_fields == <<"contact_name", "phone_number">>

\* the latest turn was handled in CLOSING, extracted both contact fields and
\* left the agent in CLOSING
ContactTaken ==
    /\ TurnTaken
    /\ last_turn[1].phase_before = "CLOSING"
    /\ AllFieldsTruthy(last_turn[1].reasoning_result.extracted_info, contact_fields)
    /\ agent_current_phase = "CLOSING"

\* C4 (as claimed): once the agent is in CLOSING and a turn has extracted
\* contact_name and phone_number, the next process_message call, whatever its
\* message, gets next_phase None from analyze and leaves the phase CLOSING.
C4_ClosingWithContactIsTerminalForAnyMessage ==
    [][ContactTaken /\ IsTurn
       => /\ last_turn'[1].reasoning_result.next_phase = None
          /\ agent_current_phase' = "CLOSING"]_vars

\* C4 (amended): a process_message call made in CLOSING, with or without the
\* contact fields taken, gets next_phase None and leaves the phase CLOSING
\* when its message is no override utterance; on a confused utterance it gets
\* next_phase CLOSING and stays in CLOSING; on a go-back utterance it gets
\* next_phase URGENCY and moves to URGENCY.
C4_ClosingIsTerminalExceptForOverrides ==
    [][agent_current_phase = "CLOSING" /\ IsTurn
       => LET message == last_turn'[1].message
              next_phase == last_turn'[1].reasoning_result.next_phase
          IN  /\ ~OverrideMessage(message)
                 => next_phase = None /\ agent_current_phase' = "CLOSING"
              /\ ConfusedMessage(message) /\ ~GoBackMessage(message)
                 => next_phase = "CLOSING" /\ agent_current_phase' = "CLOSING"
              /\ GoBackMessage(message)
                 => next_phase = "URGENCY" /\ agent_current_phase' = "URGENCY"]_vars

\* in CLOSING a turn has taken both contact fields, and a further turn with
\* no override utterance has got next_phase None and stayed in CLOSING
C4_Witness ==
    /\ start_phase = "CLOSING"
    /\ Len(chat_history) = 2
    /\ chat_history[1][1] = msg_contact
    /\ AllFieldsTruthy(agent_user_info, contact_fields)
    /\ last_turn[1].phase_before = "CLOSING"
    /\ ~OverrideMessage(last_turn[1].message)
    /\ last_turn[1].reasoning_result.next_phase = None
    /\ agent_current_phase = "CLOSING"

\* C5: a process_message call whose stripped message is a go-back utterance
\* leaves the agent in the phase before the one it was in (in DISCOVERY, in
\* DISCOVERY), and _check_phase_transition is not called in it.
C5_GoBackMovesToPrecedingPhase ==
    [][IsTurn /\ GoBackMessage(last_turn'[1].message)
       => /\ agent_current_phase' = PrecedingPhase(agent_current_phase)
          /\ ~InList("_check_phase_transition", last_turn'[1].calls)]_vars

\* a go-back utterance has moved the agent from a later phase to the one
\* before it
C5_Witness ==
    /\ TurnTaken
    /\ GoBackMessage(last_turn[1].message)
    /\ last_turn[1].phase_before # "DISCOVERY"
    /\ agent_current_phase = PrecedingPhase(last_turn[1].phase_before)
    /\ agent_current_phase # last_turn[1].phase_before

\* C6: a process_message call whose stripped message is a confused utterance
\* leaves the agent's phase as it was, also when every condition of the
\* phase's rule holds.
C6_ConfusedKeepsThePhase ==
    [][IsTurn /\ ConfusedMessage(last_turn'[1].message)
       => agent_current_phase' = agent_current_phase]_vars

\* a confused utterance in DISCOVERY with a complete profile and enough
\* history for the rule, and the agent still in DISCOVERY
C6_Witness ==
    /\ TurnTaken
    /\ ConfusedMessage(last_turn[1].message)
    /\ last_turn[1].phase_before = "DISCOVERY"
    /\ AllConditionsHold
    /\ agent_current_phase = "DISCOVERY"

\* C7 (as claimed): a process_message call whose message is a go-back or a
\* confused utterance leaves the profile unchanged and looks up no listings:
\* neither retrieve nor get_properties is called in it.
C7_OverrideTurnSkipsExtractionAndRetrieval ==
    [][IsTurn /\ OverrideMessage(last_turn'[1].message)
       => /\ agent_user_info' = agent_user_info
          /\ ~InList("retrieve", last_turn'[1].calls)
          /\ ~InList("get_properties", last_turn'[1].calls)]_vars

\* C8 (as claimed): once the profile has a budget, no process_message call
\* changes its value.
C8_BudgetKeepsItsFirstValue ==
    []["budget" \in DOMAIN agent_user_info
       => /\ "budget" \in DOMAIN agent_user_info'
          /\ agent_user_info'["budget"] = agent_user_info["budget"]]_vars

\* C9: no process_message call removes a slot from the profile.
C9_ProfileKeysNeverShrink ==
    [][DOMAIN agent_user_info \subseteq DOMAIN agent_user_info']_vars

\* a turn on a profile that has slots has added further slots to it
C9_Witness ==
    /\ TurnTaken
    /\ DOMAIN last_turn[1].user_info_before # {}
    /\ DOMAIN last_turn[1].user_info_before \subseteq DOMAIN agent_user_info
    /\ DOMAIN agent_user_info # DOMAIN last_turn[1].user_info_before

\* every process_message call so far has returned
AllReturned == \A j \in 1..Len(chat_history) : chat_history[j][2].template # "error"

\* C10: a process_message call that returns appends to the history the record
\* of the user's message and then the record of the returned reply, and
\* leaves the earlier records as they were; when every call so far has
\* returned, the history of a session has two records for each call.
C10_HistoryGrowsByTwoRecordsPerReturnedTurn ==
    /\ [][IsTurn /\ last_turn'[1].returned
          => history' = history
                 \o << [role |-> "user", content |-> last_turn'[1].message],
                       [role |-> "assistant",
                        content |-> chat_history'[Len(chat_history')][2]] >>]_vars
    /\ [](AllReturned => Len(history) = 2 * Len(chat_history))

\* two calls have returned and the history has four records
C10_Witness ==
    /\ Len(chat_history) = 2
    /\ AllReturned
    /\ Len(history) = 4


(***************************************************************************)
(* knowledge_base.py: a KnowledgeBase on its own, from its construction    *)
(* to the calls of get_properties and get_rules.  An optional argument is  *)
(* <<>> for None and <<v>> for a value; a file is <<>> when it does not    *)
(* exist and <<content>> when it does, and a file that exists is well      *)
(* formed.                                                                 *)
(***************************************************************************)
\* the longest listing table
MaxListings == 10

\* the largest limit passed to get_properties (the smallest is 0)
MaxLimit == 3

kind_apartment ==
    [type |-> <<1588, 1602, 1577>>, location |-> <<1575, 1604, 1605, 1593, 1575, 1583, 1610>>]

kind_villa ==
    [type |-> <<1601, 1610, 1604, 1575>>, location |-> <<1575, 1604, 1588, 1610, 1582, 32, 1586, 1575, 1610, 1583>>]

\* the row at position i of a table: its id column tells the rows apart
Row(kind, i) ==
    [type |-> kind.type, location |-> kind.location, id |-> <<48 + (i \div 10), 48 + (i % 10)>>]

\* a listing with Latin text: 'Studio', 'Maadi'
kind_studio ==
    [type |-> <<83, 116, 117, 100, 105, 111>>, location |-> <<77, 97, 97, 100, 105>>]

\* the most villas of a listing table
MaxVillas == 2

\* the listing tables: every row an apartment or a villa, the villas at any
\* positions
Tables ==
    UNION { { [i \in 1..n |-> Row(IF i \in villas THEN kind_villa ELSE kind_apartment, i)] :
                villas \in {s \in SUBSET (1..n) : Cardinality(s) <= MaxVillas} } :
            n \in 0..MaxListings }

\* the tables a properties.csv on disk holds
FileTables ==
    { <<>>, <<Row(kind_apartment, 1), Row(kind_villa, 2)>>,
      <<Row(kind_studio, 1), Row(kind_apartment, 2)>> }

\* csv_data: None, {} or {"properties": DataFrame}
CsvDataArgs ==
    { <<>>, <<EmptyDict>> } \cup { <<[k \in {"properties"} |-> table]>> : table \in Tables }

\* rules_data: None, {} or the rule data
RulesDataArgs == { <<>>, <<EmptyDict>>, <<rules_data>> }

\* the files of the working directory: properties.csv, rules.json and the
\* per-phase files
FileSystems ==
    [properties_csv : {<<>>} \cup {<<table>> : table \in FileTables},
     rules_json : {<<>>, <<rules_data>>},
     phase_files : {{}, {"discovery"}}]

\* _load_csv
load_csv(file) == IF file = <<>> THEN <<>> ELSE file[1]

\* _load_json
load_json(file) == IF file = <<>> THEN EmptyDict ELSE file[1]

\* get_rules, on self.rules
get_rules(rules) == rules

\* bool(x) of an optional dict
TruthyDict(arg) == arg # <<>> /\ DOMAIN arg[1] # {}

\* KnowledgeBase.__init__: the object it leaves, or the exception.  In
\* injected mode csv_data.get is called on whatever csv_data is
KnowledgeBase_init(csv_arg, rules_arg, files) ==
    IF TruthyDict(csv_arg) \/ TruthyDict(rules_arg)
    THEN IF csv_arg = <<>>
         THEN [raised |-> TRUE, injected_mode |-> TRUE]
         ELSE [raised |-> FALSE, injected_mode |-> TRUE,
               properties |-> IF "properties" \in DOMAIN csv_arg[1]
                              THEN csv_arg[1]["properties"] ELSE <<>>,
               rules |-> IF TruthyDict(rules_arg) THEN rules_arg[1] ELSE EmptyDict,
               phase_knowledge |-> {"discovery", "summary", "suggestion"}]
    ELSE [raised |-> FALSE, injected_mode |-> FALSE,
          properties |-> load_csv(files.properties_csv),
          rules |-> load_json(files.rules_json),
          phase_knowledge |-> files.phase_files]

\* the filters of a get_properties call
type_apartment == DictSet(EmptyDict, "type", Str(kind_apartment.type))

FilterArgs ==
    { EmptyDict,
      type_apartment,
      DictSet(type_apartment, "bedrooms", Str(<<51>>)),
      DictSet(EmptyDict, "location", List(<<kind_villa.location, <<1605, 1589, 1585>> >>)),
      DictSet(EmptyDict, "type", Str(<<83, 84, 85, 68, 73, 79>>)) }    \* 'STUDIO'


\* KnowledgeBase(csv_data=..., rules_data=...); files_read are the files of
\* the working directory when the constructor has looked for them
Construct ==
    /\ kb = <<>>
    /\ \E csv_arg \in CsvDataArgs, rules_arg \in RulesDataArgs, files \in FileSystems :
           kb' = << [csv_data |-> csv_arg, rules_data |-> rules_arg,
                     files_read |-> IF TruthyDict(csv_arg) \/ TruthyDict(rules_arg)
                                    THEN <<>> ELSE <<files>>,
                     self |-> KnowledgeBase_init(csv_arg, rules_arg, files)] >>
    /\ UNCHANGED <<kb_call, text_call, heap, alone, replay, manager_calls, session_vars>>

\* kb.get_properties(filters, limit)
GetProperties ==
    /\ kb # <<>>
    /\ ~kb[1].self.raised
    /\ \E filters \in FilterArgs, limit \in 0..MaxLimit :
           kb_call' = << [method |-> "get_properties", filters |-> filters, limit |-> limit,
                          returned |-> get_properties(kb[1].self.properties, filters, limit)] >>
    /\ UNCHANGED <<kb, text_call, heap, alone, replay, manager_calls, session_vars>>

\* kb.get_rules()
GetRules ==
    /\ kb # <<>>
    /\ ~kb[1].self.raised
    /\ kb_call' = << [method |-> "get_rules", returned |-> get_rules(kb[1].self.rules)] >>
    /\ UNCHANGED <<kb, text_call, heap, alone, replay, manager_calls, session_vars>>

KBInit ==
    /\ start_phase = "DISCOVERY"
    /\ Init

KBNext == Construct \/ GetProperties \/ GetRules

KBSpec == KBInit /\ [][KBNext]_vars

(***************************************************************************)
(* agent.py: two RealEstateAgent instances side by side, each built with   *)
(* its own PhaseManager and ConversationHistory.  An object is a cell of   *)
(* the heap, and an agent reaches its objects through the references its   *)
(* constructor has set.                                                    *)
(***************************************************************************)
Agents == {1, 2}

\* the number of turns each of the two agents is followed for
MaxPairTurns == 2

\* the messages the two agents are sent
PairMessages == {msg_full, msg_feature, msg_reference}

\* the phases the two managers are built with
PairStartPhases == {"DISCOVERY", "SUGGESTION"}

\* a faulty variant of agent_refs: user_info is one dict of the class
agent_refs_shared(a) ==
    [self |-> <<"RealEstateAgent", a>>,
     phase_manager |-> <<"PhaseManager", a>>,
     conversation_history |-> <<"ConversationHistory", a>>,
     user_info |-> <<"user_info", 1>>]

\* RealEstateAgent.__init__: the references of agent a: the manager and the
\* history it is handed, and the profile dict it creates
agent_refs(a) ==
    [self |-> <<"RealEstateAgent", a>>,
     phase_manager |-> <<"PhaseManager", a>>,
     conversation_history |-> <<"ConversationHistory", a>>,
     user_info |-> <<"user_info", a>>]

Objects ==
    UNION { {agent_refs(a).self, agent_refs(a).phase_manager,
             agent_refs(a).conversation_history, agent_refs(a).user_info} : a \in Agents }

\* the objects after the constructors
NewObject(o, phase) ==
    IF o[1] = "RealEstateAgent"
    THEN [current_phase |-> phase, context |-> {}, selected_properties |-> <<>>,
          last_mentioned_property |-> <<>>]
    ELSE IF o[1] = "PhaseManager" THEN [current_phase |-> phase]
    ELSE IF o[1] = "ConversationHistory" THEN [history |-> <<>>]
    ELSE EmptyDict

\* the agent a as process_message finds it
Load(a) ==
    [current_phase |-> heap[agent_refs(a).self].current_phase,
     phase_manager_current_phase |-> heap[agent_refs(a).phase_manager].current_phase,
     user_info |-> heap[agent_refs(a).user_info],
     context |-> heap[agent_refs(a).self].context,
     selected_properties |-> heap[agent_refs(a).self].selected_properties,
     last_mentioned_property |-> heap[agent_refs(a).self].last_mentioned_property,
     history |-> heap[agent_refs(a).conversation_history].history]

\* the heap once agent a has written what process_message leaves
Store(a, agent) ==
    [o \in DOMAIN heap |->
        IF o = agent_refs(a).self
        THEN [current_phase |-> agent.current_phase, context |-> agent.context,
              selected_properties |-> agent.selected_properties,
              last_mentioned_property |-> agent.last_mentioned_property]
        ELSE IF o = agent_refs(a).phase_manager
        THEN [current_phase |-> agent.phase_manager_current_phase]
        ELSE IF o = agent_refs(a).conversation_history THEN [history |-> agent.history]
        ELSE IF o = agent_refs(a).user_info THEN agent.user_info
        ELSE heap[o]]

\* process_message on an agent; generator is <<text>> when
\* generate_arabic_response returns text (if it is called) and <<>> when it
\* raises (it then must be called); t holds the values of TurnOf
ProcessMessageLeaves(agent, t, generator) ==
    IF generator = <<>> /\ CallsGenerator(t.current_phase, t.user_info, t.relevant_knowledge)
    THEN AgentAfter(agent, t)
    ELSE [AgentAfter(agent, t) EXCEPT
             !.history = add_message(@, "assistant",
                             generate_response(t.current_phase, t.user_info, t.relevant_knowledge,
                                               IF generator = <<>> THEN "generated_text"
                                               ELSE generator[1]))]

process_message(agent, user_message, generator) ==
    ProcessMessageLeaves(agent, TurnOf(agent, user_message), generator)

\* the user records of a history
UserTurns(h) == Cardinality({j \in 1..Len(h) : h[j].role = "user"})

\* agent a writes what its call leaves; after holds the agent after the call
\* made together with the other agent and after the call made alone
Written(a, after) ==
    /\ heap' = Store(a, after["together"])
    /\ alone' = [alone EXCEPT ![a] = after["alone"]]

\* agent a processes a message; the same call is made on the agent its own
\* messages alone have made
AgentTurn(a) ==
    /\ heap # <<>>
    /\ UserTurns(heap[agent_refs(a).conversation_history].history) < MaxPairTurns
    /\ \E user_message \in PairMessages, generator \in {<<>>} \cup {<<g>> : g \in GenTexts} :
           Written(a, [run \in {"together", "alone"} |->
                          process_message(IF run = "together" THEN Load(a) ELSE alone[a],
                                          user_message, generator)])
    /\ UNCHANGED <<kb, kb_call, text_call, replay, manager_calls, session_vars>>

PairInit ==
    /\ start_phase \in PairStartPhases
    /\ InitSession
    /\ kb = <<>>
    /\ kb_call = <<>>
    /\ text_call = <<>>
    /\ replay = <<>>
    /\ manager_calls = <<>>
    /\ heap = [o \in Objects |-> NewObject(o, start_phase)]
    /\ alone = [a \in Agents |->
                   [current_phase |-> start_phase, phase_manager_current_phase |-> start_phase,
                    user_info |-> EmptyDict, context |-> {}, selected_properties |-> <<>>,
                    last_mentioned_property |-> <<>>, history |-> <<>>]]

PairNext == \E a \in Agents : AgentTurn(a)

PairSpec == PairInit /\ [][PairNext]_vars

(***************************************************************************)
(* arabic_nlp_helpers.py: analyze_arabic_sentiment, and analyze_sentiment  *)
(* of text_processing.py in front of it.                                   *)
(***************************************************************************)
positive_words ==
    <<
      <<1580, 1610, 1583>>,    \* "جيد"
      <<1585, 1575, 1574, 1593>>,    \* "رائع"
      <<1605, 1605, 1578, 1575, 1586>>,    \* "ممتاز"
      <<1580, 1605, 1610, 1604>>,    \* "جميل"
      <<1605, 1606, 1575, 1587, 1576>>,    \* "مناسب"
      <<1605, 1608, 1575, 1601, 1602>>,    \* "موافق"
      <<1571, 1593, 1580, 1576, 1606, 1610>>,    \* "أعجبني"
      <<1571, 1581, 1576>>,    \* "أحب"
      <<1587, 1593, 1610, 1583>>,    \* "سعيد"
      <<1601, 1585, 1581>>,    \* "فرح"
      <<1581, 1604, 1608>>,    \* "حلو"
      <<1604, 1591, 1610, 1601>>,    \* "لطيف"
      <<1605, 1601, 1610, 1583>>,    \* "مفيد"
      <<1606, 1575, 1580, 1581>>,    \* "ناجح"
      <<1605, 1585, 1610, 1581>>,    \* "مريح"
      <<1605, 1604, 1575, 1574, 1605>>,    \* "ملائم"
      <<1573, 1610, 1580, 1575, 1576, 1610>>,    \* "إيجابي"
      <<1601, 1593, 1575, 1604>>,    \* "فعال"
      <<1605, 1579, 1575, 1604, 1610>>,    \* "مثالي"
      <<1605, 1578, 1605, 1610, 1586>>,    \* "متميز"
      <<1606, 1593, 1605>>,    \* "نعم"
      <<1571, 1608, 1575, 1601, 1602>>,    \* "أوافق"
      <<1578, 1605, 1575, 1605>>,    \* "تمام"
      <<1605, 1607, 1578, 1605>>,    \* "مهتم"
      <<1571, 1585, 1594, 1576>>,    \* "أرغب"
      <<1605, 1605, 1603, 1606>>,    \* "ممكن"
      <<1605, 1593, 1602, 1608, 1604>>,    \* "معقول"
      <<1605, 1585, 1576, 1581>>,    \* "مربح"
      <<1575, 1588, 1578, 1585, 1610>>,    \* "اشتري"
      <<1571, 1582, 1578, 1575, 1585>>    \* "أختار"
    >>

negative_words ==
    <<
      <<1587, 1610, 1569>>,    \* "سيء"
      <<1585, 1583, 1574>>,    \* "ردئ"
      <<1594, 1575, 1604, 1610>>,    \* "غالي"
      <<1576, 1593, 1610, 1583>>,    \* "بعيد"
      <<1589, 1594, 1610, 1585>>,    \* "صغير"
      <<1605, 1588, 1603, 1604, 1577>>,    \* "مشكلة"
      <<1604, 1575, 32, 1571, 1581, 1576>>,    \* "لا أحب"
      <<1604, 1575, 32, 1571, 1585, 1610, 1583>>,    \* "لا أريد"
      <<1594, 1610, 1585, 32, 1605, 1606, 1575, 1587, 1576>>,    \* "غير مناسب"
      <<1589, 1593, 1576>>,    \* "صعب"
      <<1605, 1593, 1602, 1583>>,    \* "معقد"
      <<1602, 1576, 1610, 1581>>,    \* "قبيح"
      <<1605, 1586, 1593, 1580>>,    \* "مزعج"
      <<1594, 1610, 1585, 32, 1605, 1585, 1610, 1581>>,    \* "غير مريح"
      <<1587, 1604, 1576, 1610>>,    \* "سلبي"
      <<1601, 1575, 1588, 1604>>,    \* "فاشل"
      <<1590, 1593, 1610, 1601>>,    \* "ضعيف"
      <<1576, 1575, 1607, 1592>>,    \* "باهظ"
      <<1604, 1575>>,    \* "لا"
      <<1594, 1610, 1585>>,    \* "غير"
      <<1585, 1601, 1590>>,    \* "رفض"
      <<1605, 1581, 1576, 1591>>,    \* "محبط"
      <<1582, 1575, 1574, 1576>>,    \* "خائب"
      <<1594, 1575, 1590, 1576>>,    \* "غاضب"
      <<1604, 1575, 32, 1571, 1608, 1575, 1601, 1602>>,    \* "لا أوافق"
      <<1604, 1575, 32, 1610, 1606, 1575, 1587, 1576>>,    \* "لا يناسب"
      <<1605, 1585, 1578, 1601, 1593>>,    \* "مرتفع"
      <<1594, 1610, 1585, 32, 1605, 1593, 1602, 1608, 1604>>,    \* "غير معقول"
      <<1576, 1591, 1610, 1569>>,    \* "بطيء"
      <<1605, 1578, 1593, 1576>>,    \* "متعب"
      <<1605, 1585, 1607, 1602>>    \* "مرهق"
    >>

negation_words ==
    <<
      <<1604, 1575>>,    \* "لا"
      <<1604, 1610, 1587>>,    \* "ليس"
      <<1594, 1610, 1585>>,    \* "غير"
      <<1605, 1575>>,    \* "ما"
      <<1604, 1605>>,    \* "لم"
      <<1604, 1606>>    \* "لن"
    >>

\* sum(1 for word in words if word in text)
CountIn(words, text) == Cardinality({j \in 1..Len(words) : Contains(text, words[j])})

\* the pairs of the two nested loops whose phrase, with or without the
\* space, is in the text
NegatedIn(words, text) ==
    Cardinality({p \in (1..Len(negation_words)) \X (1..Len(words)) :
                    \/ Contains(text, negation_words[p[1]] \o <<32>> \o words[p[2]])
                    \/ Contains(text, negation_words[p[1]] \o words[p[2]])})

\* the label of the two tallies
SentimentOf(positive_count, negative_count) ==
    IF positive_count > negative_count THEN "positive"
    ELSE IF negative_count > positive_count THEN "negative"
    ELSE "neutral"

\* the tallies after the two negation loops, on the normalized text
SentimentOfText(text) ==
    SentimentOf(CountIn(positive_words, text) - NegatedIn(positive_words, text)
                    + NegatedIn(negative_words, text),
                CountIn(negative_words, text) + NegatedIn(positive_words, text)
                    - NegatedIn(negative_words, text))

analyze_arabic_sentiment(text) == SentimentOfText(normalize_arabic_text(text))

\* analyze_sentiment: the label of analyze_arabic_sentiment is never empty,
\* so the word count after it is not reached
analyze_sentiment(text) == analyze_arabic_sentiment(normalize_arabic_text(text))

text_mesh_kwayyes == <<1605, 1588, 32, 1603, 1608, 1610, 1587>>    \* "مش كويس"

(***************************************************************************)
(* The text functions on their own: calls of normalize_arabic_text and of   *)
(* analyze_sentiment.                                                      *)
(***************************************************************************)
\* the longest text handed to normalize_arabic_text
MaxTextLen == 3

\* alef with hamza, alef, yeh with hamza, teh marbuta, alef maksura, beh,
\* fathatan, superscript alef, a digit, a space, a tab, a Latin letter
TextAlphabet == {1571, 1575, 1574, 1577, 1609, 1576, 1611, 1648, 53, 32, 9, 97}

NormalizeArgs == UNION { [1..n -> TextAlphabet] : n \in 0..MaxTextLen }

\* the texts handed to analyze_sentiment: a negation marker and a positive
\* word, with a space or joined; a word of either list alone; and a phrase
\* of the dialect
SentimentArgs ==
    { negation_words[i] \o sep \o positive_words[j] :
          i \in 1..Len(negation_words), j \in 1..Len(positive_words), sep \in {<<>>, <<32>>} }
    \cup { positive_words[j] : j \in 1..Len(positive_words) }
    \cup { negative_words[j] : j \in 1..Len(negative_words) }
    \cup { text_mesh_kwayyes }

\* normalize_arabic_text(text), on the text the run has drawn
NormalizeText ==
    /\ text_call # <<>>
    /\ text_call[1].function = "normalize_arabic_text"
    /\ text_call[1].returned = <<>>
    /\ text_call' = << [text_call[1] EXCEPT
                            !.returned = <<normalize_arabic_text(text_call[1].text)>>] >>
    /\ UNCHANGED <<kb, kb_call, heap, alone, replay, manager_calls, session_vars>>

\* analyze_sentiment(text), on the text the run has drawn
AnalyzeSentiment ==
    /\ text_call # <<>>
    /\ text_call[1].function = "analyze_sentiment"
    /\ text_call[1].returned = <<>>
    /\ text_call' = << [text_call[1] EXCEPT
                            !.returned = <<analyze_sentiment(text_call[1].text)>>] >>
    /\ UNCHANGED <<kb, kb_call, heap, alone, replay, manager_calls, session_vars>>

(***************************************************************************)
(* agent.py: _basic_info_extraction called on its own, on a profile and a  *)
(* message made of an opening, an amount, white space, a unit and an       *)
(* ending.                                                                 *)
(***************************************************************************)

\* how a scanned message opens: with nothing, with a count that is not an amount, with a place
ScanOpenings ==
    {
      <<>>,    \* ''
      <<51, 32, 1594, 1585, 1601, 32>>,    \* '3 غرف '
      <<1601, 1610, 32, 1575, 1604, 1583, 1602, 1610, 32>>    \* 'في الدقي '
    }

\* the digits of the amount
ScanAmounts ==
    {
      <<53, 48, 48>>,    \* '500'
      <<49, 44, 53, 48, 48, 44, 48, 48, 48>>,    \* '1,500,000'
      <<1639, 1637, 1632>>    \* '٧٥٠'
    }

\* the white space before the unit
ScanGaps ==
    {
      <<>>,    \* ''
      <<32>>    \* ' '
    }

\* what follows the amount: the five units of the pattern, the thousand word written with a hamza, an upper-case K
ScanUnits ==
    {
      <<1580, 1606, 1610, 1607>>,    \* 'جنيه'
      <<1575, 1604, 1601>>,    \* 'الف'
      <<1605, 1604, 1610, 1608, 1606>>,    \* 'مليون'
      <<107>>,    \* 'k'
      <<109>>,    \* 'm'
      <<1571, 1604, 1601>>,    \* 'ألف'
      <<75>>    \* 'K'
    }

\* how a scanned message ends: with nothing, with a property type, with a second amount
ScanEndings ==
    {
      <<>>,    \* ''
      <<32, 118, 105, 108, 108, 97>>,    \* ' villa'
      <<32, 1575, 1608, 32, 57, 48, 48, 32, 1575, 1604, 1601>>    \* ' او 900 الف'
    }

\* the messages handed to _basic_info_extraction
ScanTexts ==
    { opening \o amount \o gap \o unit \o ending :
          opening \in ScanOpenings, amount \in ScanAmounts, gap \in ScanGaps,
          unit \in ScanUnits, ending \in ScanEndings }

\* the profiles it is called on: empty, with a budget, with a location and a
\* property type, with the three slots
ScanProfiles ==
    { EmptyDict,
      DictSet(EmptyDict, "budget", <<49, 48, 48, 32, 1580, 1606, 1610, 1607>>),
      DictSet(DictSet(EmptyDict, "location", <<1575, 1604, 1605, 1593, 1575, 1583, 1610>>), "property_type", <<1588, 1602, 1577>>),
      DictSet(DictSet(DictSet(EmptyDict, "location", <<1575, 1604, 1605, 1593, 1575, 1583, 1610>>), "property_type", <<1588, 1602, 1577>>),
              "budget", <<49, 48, 48, 32, 1580, 1606, 1610, 1607>>) }

\* agent._basic_info_extraction(message), on the profile and the message the
\* run has drawn: the profile it leaves
BasicInfoExtraction ==
    /\ text_call # <<>>
    /\ text_call[1].function = "_basic_info_extraction"
    /\ text_call[1].returned = <<>>
    /\ text_call' = << [text_call[1] EXCEPT
                            !.returned = <<ScanInto(text_call[1].user_info,
                                                    FoundSlots(text_call[1].text))>>] >>
    /\ UNCHANGED <<kb, kb_call, heap, alone, replay, manager_calls, session_vars>>

(***************************************************************************)
(* history.py: get_formatted_history called on its own, on a history of    *)
(* records of either role.                                                 *)
(***************************************************************************)
\* the longest history the window is taken of
MaxHistoryLen == 5

\* the largest max_pairs
MaxPairsArg == 3

\* the histories: record i has the text of the digit i, and either role
Histories ==
    UNION { { [i \in 1..n |-> [role |-> roles[i], content |-> <<48 + i>>]] :
                roles \in [1..n -> {"user", "assistant"}] } :
            n \in 0..MaxHistoryLen }

\* l[start:] for a list l and an int start
SliceFrom(l, start) ==
    LET from == IF start < 0
                THEN (IF Len(l) + start < 0 THEN 0 ELSE Len(l) + start)
                ELSE (IF start > Len(l) THEN Len(l) ELSE start)
    IN  SubSeq(l, from + 1, Len(l))

\* the loop over self.history: every two records in a row make a pair
PairsOf(h) == [j \in 1..(Len(h) \div 2) |-> <<h[2 * j - 1], h[2 * j]>>]

\* formatted.extend(pair) for each pair
RECURSIVE Flatten(_)
Flatten(pairs) ==
    IF pairs = <<>> THEN <<>> ELSE Head(pairs) \o Flatten(Tail(pairs))

\* get_formatted_history: recent = pairs[-max_pairs:], flattened
get_formatted_history(h, max_pairs) == Flatten(SliceFrom(PairsOf(h), 0 - max_pairs))

\* conversation_history.get_formatted_history(max_pairs), on the history
\* and the max_pairs the run has drawn
GetFormattedHistory ==
    /\ text_call # <<>>
    /\ text_call[1].function = "get_formatted_history"
    /\ text_call[1].returned = <<>>
    /\ text_call' = << [text_call[1] EXCEPT
                            !.returned = <<get_formatted_history(text_call[1].history,
                                                                 text_call[1].max_pairs)>>] >>
    /\ UNCHANGED <<kb, kb_call, heap, alone, replay, manager_calls, session_vars>>

(***************************************************************************)
(* text_processing.py: extract_entities and extract_preferences called on  *)
(* their own, on texts made of up to three phrases in any order.           *)
(***************************************************************************)
\* the most phrases of a text
MaxPhrases == 3

EntityPhrases ==
    {
      <<1575, 1604, 1585, 1610, 1575, 1590>>,    \* 'الرياض': a city of the gazetteer
      <<1575, 1604, 1583, 1605, 1575, 1605>>,    \* 'الدمام': another city of the gazetteer
      <<1601, 1610, 1604, 1575>>,    \* 'فيلا': a property type of both passes
      <<1605, 1606, 1586, 1604>>,    \* 'منزل': another property type of both passes
      <<1605, 1587, 1576, 1581>>,    \* 'مسبح': a feature: the rule-based pass only
      <<53, 48, 48, 32, 1580, 1606, 1610, 1607>>,    \* '500 جنيه': an amount in pounds: the rule-based pass only
      <<51, 32, 1594, 1585, 1601>>,    \* '3 غرف': a count of rooms
      <<1601, 1610, 32, 1575, 1604, 1605, 1593, 1575, 1583, 1610>>    \* 'في المعادي': a place after 'in': the rule-based pass only
    }

\* the phrases of a sequence, with a space between them
RECURSIVE JoinSpace(_)
JoinSpace(l) ==
    IF Len(l) = 0 THEN <<>>
    ELSE IF Len(l) = 1 THEN l[1]
    ELSE l[1] \o <<32>> \o JoinSpace(Tail(l))

\* the texts: up to MaxPhrases different phrases, in any order
EntityTexts ==
    { JoinSpace(l) :
          l \in UNION { {s \in [1..n -> EntityPhrases] :
                             \A i \in 1..n, j \in 1..n : i # j => s[i] # s[j]} :
                        n \in 0..MaxPhrases } }

\* extract_entities(text), on the text the run has drawn
ExtractEntities ==
    /\ text_call # <<>>
    /\ text_call[1].function = "extract_entities"
    /\ text_call[1].returned = <<>>
    /\ text_call' = << [text_call[1] EXCEPT
                            !.returned = <<extract_entities(text_call[1].text)>>] >>
    /\ UNCHANGED <<kb, kb_call, heap, alone, replay, manager_calls, session_vars>>

\* extract_preferences(text), on the text the run has drawn
ExtractPreferences ==
    /\ text_call # <<>>
    /\ text_call[1].function = "extract_preferences"
    /\ text_call[1].returned = <<>>
    /\ text_call' = << [text_call[1] EXCEPT
                            !.returned = <<extract_preferences(text_call[1].text)>>] >>
    /\ UNCHANGED <<kb, kb_call, heap, alone, replay, manager_calls, session_vars>>

(***************************************************************************)
(* arabic_nlp_helpers.py: stem_arabic_word called on its own, on words     *)
(* made of a prefix or none, a core and a suffix or none.                  *)
(***************************************************************************)

\* the list `prefixes`, in its order
stem_prefixes ==
    <<
      <<1575, 1604>>,    \* 'ال'
      <<1608>>,    \* 'و'
      <<1601>>,    \* 'ف'
      <<1576>>,    \* 'ب'
      <<1604>>,    \* 'ل'
      <<1604, 1604>>,    \* 'لل'
      <<1608, 1575, 1604>>,    \* 'وال'
      <<1601, 1575, 1604>>,    \* 'فال'
      <<1576, 1575, 1604>>,    \* 'بال'
      <<1603, 1575, 1604>>    \* 'كال'
    >>

\* the list `suffixes`, in its order
stem_suffixes ==
    <<
      <<1608, 1606>>,    \* 'ون'
      <<1575, 1578>>,    \* 'ات'
      <<1610, 1606>>,    \* 'ين'
      <<1575, 1606>>,    \* 'ان'
      <<1578, 1610>>,    \* 'تي'
      <<1578, 1606>>,    \* 'تن'
      <<1603, 1606>>,    \* 'كن'
      <<1607, 1606>>,    \* 'هن'
      <<1606, 1575>>,    \* 'نا'
      <<1607, 1575>>,    \* 'ها'
      <<1610, 1577>>    \* 'ية'
    >>

\* the cores of the words: of one, two and three letters
StemCores ==
    {
      <<1585>>,    \* 'ر'
      <<1576, 1578>>,    \* 'بت'
      <<1583, 1585, 1587>>    \* 'درس'
    }

\* the endings of the words besides none: three of the suffixes and two letters that are no suffix
StemEndings ==
    {
      <<1608, 1606>>,    \* 'ون'
      <<1575, 1578>>,    \* 'ات'
      <<1610, 1577>>,    \* 'ية'
      <<1585, 1587>>    \* 'رس'
    }

\* the words handed to stem_arabic_word
StemWords ==
    { prefix \o core \o ending :
          prefix \in {<<>>} \cup {stem_prefixes[j] : j \in 1..Len(stem_prefixes)},
          core \in StemCores,
          ending \in {<<>>} \cup StemEndings }

\* word.startswith(w)
StartsWith(word, w) == MatchAt(word, 1, w)

\* word.endswith(w)
EndsWith(word, w) == MatchAt(word, Len(word) - Len(w) + 1, w)

\* the first loop: the word without the first prefix of the list it starts
\* with
StripPrefix(word) ==
    LET hits == {j \in 1..Len(stem_prefixes) : StartsWith(word, stem_prefixes[j])}
    IN  IF hits = {} THEN word
        ELSE SubSeq(word, Len(stem_prefixes[Min(hits)]) + 1, Len(word))

\* the second loop: the word without the first suffix of the list it ends
\* with while being more than two characters longer
StripSuffix(word) ==
    LET hits == {j \in 1..Len(stem_suffixes) :
                    /\ EndsWith(word, stem_suffixes[j])
                    /\ Len(word) > Len(stem_suffixes[j]) + 2}
    IN  IF hits = {} THEN word
        ELSE SubSeq(word, 1, Len(word) - Len(stem_suffixes[Min(hits)]))

stem_arabic_word(word) == StripSuffix(StripPrefix(word))

\* stem_arabic_word(word), on the word the run has drawn
StemArabicWord ==
    /\ text_call # <<>>
    /\ text_call[1].function = "stem_arabic_word"
    /\ text_call[1].returned = <<>>
    /\ text_call' = << [text_call[1] EXCEPT
                            !.returned = <<stem_arabic_word(text_call[1].text)>>] >>
    /\ UNCHANGED <<kb, kb_call, heap, alone, replay, manager_calls, session_vars>>

\* the calls a run can draw: a function and its arguments, not yet returned
PendingCalls ==
    { [function |-> "normalize_arabic_text", text |-> text, returned |-> <<>>] :
          text \in NormalizeArgs }
    \cup
    { [function |-> "analyze_sentiment", text |-> text, returned |-> <<>>] :
          text \in SentimentArgs }
    \cup
    { [function |-> "_basic_info_extraction", text |-> text, user_info |-> user_info,
       returned |-> <<>>] :
          text \in ScanTexts, user_info \in ScanProfiles }
    \cup
    { [function |-> "get_formatted_history", history |-> h, max_pairs |-> max_pairs,
       returned |-> <<>>] :
          h \in Histories, max_pairs \in 0..MaxPairsArg }
    \cup
    { [function |-> function, text |-> text, returned |-> <<>>] :
          function \in {"extract_entities", "extract_preferences"}, text \in EntityTexts }
    \cup
    { [function |-> "stem_arabic_word", text |-> word, returned |-> <<>>] : word \in StemWords }

\* a run draws the function it calls and the arguments it calls it on
TextInit ==
    /\ start_phase = "DISCOVERY"
    /\ InitSession
    /\ kb = <<>>
    /\ kb_call = <<>>
    /\ heap = <<>>
    /\ alone = <<>>
    /\ replay = <<>>
    /\ manager_calls = <<>>
    /\ text_call \in { <<call>> : call \in PendingCalls }

TextNext ==
    \/ NormalizeText
    \/ AnalyzeSentiment
    \/ BasicInfoExtraction
    \/ GetFormattedHistory
    \/ ExtractEntities
    \/ ExtractPreferences
    \/ StemArabicWord

TextSpec == TextInit /\ [][TextNext]_vars

(***************************************************************************)
(* main.py and agent.py: a session started in DISCOVERY, and a second run  *)
(* of it: an agent built the same way and sent the same messages, for      *)
(* which generate_arabic_response returns texts of its own.                *)
(***************************************************************************)
\* the number of turns the two runs are followed for
MaxReplayTurns == 5

ReplayMessages == {msg_full, msg_budget, msg_confirm, msg_go_back}

\* the texts generate_arabic_response may return in the second run: the text
\* of the first run, or the empty text (the decoded output, cut after the
\* prompt and stripped, may have nothing left)
ReplayTexts == GenTexts \cup {""}

\* both runs return their replies; t holds the values of Turn(user_message)
\* in the current state
ReplayReturns(user_message, t) ==
    /\ Len(chat_history) < MaxReplayTurns
    /\ Replies(user_message, t)
    /\ \E generated \in ReplayTexts :
           replay' = process_message(replay, user_message, <<generated>>)

\* generate_arabic_response raises in both runs
ReplayRaises(user_message, t) ==
    /\ Len(chat_history) < MaxReplayTurns
    /\ Fails(user_message, t)
    /\ replay' = process_message(replay, user_message, <<>>)

ReplayInit ==
    /\ start_phase = "DISCOVERY"
    /\ InitSession
    /\ kb = <<>>
    /\ kb_call = <<>>
    /\ text_call = <<>>
    /\ heap = <<>>
    /\ alone = <<>>
    /\ manager_calls = <<>>
    /\ replay = [current_phase |-> start_phase, phase_manager_current_phase |-> start_phase,
                 user_info |-> EmptyDict, context |-> {}, selected_properties |-> <<>>,
                 last_mentioned_property |-> <<>>, history |-> <<>>]

ReplayNext ==
    \E user_message \in ReplayMessages :
        \/ ReplayReturns(user_message, Turn(user_message))
        \/ ReplayRaises(user_message, Turn(user_message))

ReplaySpec == ReplayInit /\ [][ReplayNext]_vars

(***************************************************************************)
(* phase_manager.py: a PhaseManager called from outside the agent:         *)
(* advance_phase, set_current_phase and its alias set_phase.  The agent    *)
(* built around the manager keeps its own current_phase.                   *)
(***************************************************************************)
\* the number of calls a manager is followed for
MaxManagerCalls == 8

\* the most calls of set_current_phase and set_phase among them
MaxSetCalls == 1

\* a faulty variant of advance_phase: after the last phase comes the first
advance_phase_wraps(current_phase) ==
    ConversationPhase[(PhaseIndex(current_phase) % Len(ConversationPhase)) + 1]

\* advance_phase, on the manager's phase
advance_phase(current_phase) ==
    IF current_phase = "CLOSING" THEN current_phase
    ELSE LET current_index == PhaseIndex(current_phase)
         IN  ConversationPhase[current_index + 1]

\* set_phase: the alias of set_current_phase
set_phase(current_phase, phase) == set_current_phase(current_phase, phase)

SetCalls == {j \in 1..Len(manager_calls) : manager_calls[j].method # "advance_phase"}

\* a call has been made: the record of it, and what the rest of the program
\* keeps
Called(method, phase, after) ==
    /\ phase_manager_current_phase' = after
    /\ manager_calls' = Append(manager_calls,
                               [method |-> method, phase |-> phase,
                                before |-> phase_manager_current_phase, after |-> after])
    /\ UNCHANGED <<start_phase, agent_current_phase, agent_user_info, agent_context,
                   agent_selected_properties, agent_last_mentioned_property, history,
                   chat_history, last_turn, phase_trail, kb, kb_call, text_call, heap, alone,
                   replay>>

\* phase_manager.advance_phase()
AdvancePhase ==
    /\ Len(manager_calls) < MaxManagerCalls
    /\ Called("advance_phase", None, advance_phase(phase_manager_current_phase))

\* phase_manager.set_current_phase(new_phase)
SetCurrentPhase ==
    /\ Len(manager_calls) < MaxManagerCalls
    /\ Cardinality(SetCalls) < MaxSetCalls
    /\ \E new_phase \in Phases :
           Called("set_current_phase", new_phase,
                  set_current_phase(phase_manager_current_phase, new_phase))

\* phase_manager.set_phase(phase)
SetPhase ==
    /\ Len(manager_calls) < MaxManagerCalls
    /\ Cardinality(SetCalls) < MaxSetCalls
    /\ \E phase \in Phases :
           Called("set_phase", phase, set_phase(phase_manager_current_phase, phase))

ManagerNext == AdvancePhase \/ SetCurrentPhase \/ SetPhase

ManagerSpec == Init /\ [][ManagerNext]_vars

(***************************************************************************)
(* The knowledge store.                                                    *)
(***************************************************************************)
IsGetProperties == kb_call # <<>> /\ kb_call[1].method = "get_properties"

\* the positions of the listings of the store that match the filters
MatchingAt(filters) ==
    {i \in 1..Len(kb[1].self.properties) : PropMatches(kb[1].self.properties[i], filters)}

\* the positions of the first n of them
FirstMatching(filters, n) ==
    {i \in MatchingAt(filters) : Cardinality({j \in MatchingAt(filters) : j <= i}) <= n}

\* the listings at a set of positions, in storage order
ListingsAt(positions) ==
    [j \in 1..Cardinality(positions) |->
            kb[1].self.properties[CHOOSE i \in positions :
                                      Cardinality({k \in positions : k <= i}) = j]]

\* C11: a get_properties call with a limit of at least 1 returns the first
\* min(limit, m) listings that match the filters, in storage order, m being
\* the number of listings of the table that match.
C11_GetPropertiesReturnsFirstMatches ==
    (IsGetProperties /\ kb_call[1].limit >= 1) =>
        kb_call[1].returned = ListingsAt(FirstMatching(kb_call[1].filters, kb_call[1].limit))

\* ten listings match and the limit is 3
C11_Witness ==
    /\ IsGetProperties
    /\ Cardinality(MatchingAt(kb_call[1].filters)) = 10
    /\ kb_call[1].limit = 3
    /\ Len(kb_call[1].returned) = 3

(***************************************************************************)
(* Retrieval within a turn.                                                *)
(***************************************************************************)
\* the filters retrieve combines on the latest turn: the profile as
\* _basic_info_extraction left it, then the query's own
TurnFilters ==
    DictUpdate(ProfileFilters(last_turn[1].analyze_user_info),
               message_query_filters[last_turn[1].message])

\* the listings of the table that match them
TurnMatching == {i \in 1..Len(csv_properties) : PropMatches(csv_properties[i], TurnFilters)}

TurnShown == last_turn[1].relevant_knowledge.relevant_properties

\* C12: the result of retrieve has relevant_properties exactly when some
\* listing of the table matches the combined filters, and the field then
\* holds between 1 and 3 listings, each of them a listing of the table.
C12_RelevantPropertiesPresentIffSomeListingMatches ==
    last_turn # <<>> =>
        /\ "relevant_properties" \in DOMAIN last_turn[1].relevant_knowledge <=> TurnMatching # {}
        /\ "relevant_properties" \in DOMAIN last_turn[1].relevant_knowledge =>
               /\ Len(TurnShown) \in 1..3
               /\ \A j \in 1..Len(TurnShown) :
                      \E i \in 1..Len(csv_properties) : TurnShown[j] = csv_properties[i]

\* a turn on which four listings match and three are returned
C12_Witness ==
    /\ last_turn # <<>>
    /\ Cardinality(TurnMatching) = 4
    /\ "relevant_properties" \in DOMAIN last_turn[1].relevant_knowledge
    /\ Len(TurnShown) = 3

(***************************************************************************)
(* The reasoning step within a turn.                                       *)
(***************************************************************************)
\* C13: analyze leaves the objects it is handed as they were: the profile of
\* the context is the profile _basic_info_extraction left, the history is the
\* history with the user's record, and the phase is the phase of the agent
\* and of its manager before the turn; what the turn changes in the profile
\* and the phase is what process_message does after analyze has returned.
C13_AnalyzeLeavesProfileHistoryAndPhase ==
    last_turn # <<>> =>
        /\ last_turn[1].analyzed.context.user_info = last_turn[1].analyze_user_info
        /\ last_turn[1].analyzed.conversation_history
               = add_message(last_turn[1].history_before, "user", last_turn[1].message)
        /\ last_turn[1].analyzed.current_phase = last_turn[1].phase_before

\* analyze has extracted a delta and reported another phase, and the turn has
\* committed both
C13_Witness ==
    /\ last_turn # <<>>
    /\ DOMAIN last_turn[1].reasoning_result.extracted_info # {}
    /\ last_turn[1].reasoning_result.should_change_phase
    /\ last_turn[1].analyzed.context.user_info = last_turn[1].analyze_user_info
    /\ agent_user_info # last_turn[1].analyze_user_info
    /\ agent_current_phase # last_turn[1].phase_before

(***************************************************************************)
(* Back-references.                                                        *)
(***************************************************************************)
\* C14: when a turn has recorded a listing as last_mentioned_property, a
\* following turn whose message refers back sets the profile's refers_to to
\* that listing: the one recorded before the turn, whatever the turn's own
\* reply shows.
C14_BackReferenceUsesListingOfEarlierTurn ==
    [][(/\ IsTurn
        /\ agent_last_mentioned_property # <<>>
        /\ message_is_reference[last_turn'[1].message])
       => /\ "refers_to" \in DOMAIN agent_user_info'
          /\ agent_user_info'["refers_to"] = Dict(agent_last_mentioned_property[1])]_vars

\* a turn in SUGGESTION has shown listings, and the turn after it, whose
\* message refers back, has shown others: refers_to is the first listing of the
\* earlier turn
C14_Witness ==
    /\ Len(chat_history) = 2
    /\ start_phase = "SUGGESTION"
    /\ chat_history[1][2].template = "suggestion"
    /\ message_is_reference[last_turn[1].message]
    /\ "refers_to" \in DOMAIN agent_user_info
    /\ agent_user_info["refers_to"] = Dict(chat_history[1][2].props[1])
    /\ agent_last_mentioned_property # <<>>
    /\ agent_last_mentioned_property[1] # chat_history[1][2].props[1]

(***************************************************************************)
(* Failures of the text generator.                                         *)
(***************************************************************************)
\* process_message has run on the step and has raised
TurnRaises == last_turn' # last_turn /\ ~last_turn'[1].returned

\* the latest turn has raised
RaisedBefore == last_turn # <<>> /\ ~last_turn[1].returned

\* C15: when the text generator raises during a turn, chat still answers:
\* the pair of the message and the error reply is appended to the chat; and
\* the session stays usable: the message sent after the failure is processed
\* by the same agent, on the phase, the profile and the history the failed
\* turn has left, and it is answered too.
C15_GeneratorFailureIsAnsweredAndSessionGoesOn ==
    /\ [][TurnRaises =>
            /\ Len(chat_history') = Len(chat_history) + 1
            /\ chat_history'[Len(chat_history')] = <<last_turn'[1].message, [template |-> "error"]>>]_vars
    /\ [][(RaisedBefore /\ last_turn' # last_turn) =>
            /\ last_turn'[1].phase_before = agent_current_phase
            /\ last_turn'[1].user_info_before = agent_user_info
            /\ last_turn'[1].history_before = history
            /\ Len(chat_history') = Len(chat_history) + 1
            /\ chat_history'[Len(chat_history')][1] = last_turn'[1].message]_vars

\* a turn has raised and been answered with the error reply, and the turn
\* after it has returned a reply of the agent
C15_Witness ==
    /\ Len(chat_history) = 2
    /\ chat_history[1][2].template = "error"
    /\ chat_history[2][2].template # "error"
    /\ last_turn[1].returned
    /\ Len(history) = 3

(***************************************************************************)
(* Construction of the knowledge store.                                    *)
(***************************************************************************)
\* the argument holds no listing table: None, {} or an empty table
NoListings(csv_arg) ==
    \/ csv_arg = <<>>
    \/ "properties" \notin DOMAIN csv_arg[1]
    \/ csv_arg[1]["properties"] = <<>>

\* the argument holds no rule data: None or {}
NoRules(rules_arg) == ~TruthyDict(rules_arg)

\* C16: a knowledge store constructed without a listing table, without rule
\* data or without both is constructed without an exception, and the part
\* that no argument and no file provides is an empty collection.
C16_ConstructionWithAbsentDataNeverRaises ==
    (kb # <<>> /\ (NoListings(kb[1].csv_data) \/ NoRules(kb[1].rules_data))) =>
        /\ ~kb[1].self.raised
        /\ (NoListings(kb[1].csv_data)
              /\ (kb[1].files_read = <<>> \/ kb[1].files_read[1].properties_csv = <<>>))
               => kb[1].self.properties = <<>>
        /\ (NoRules(kb[1].rules_data)
              /\ (kb[1].files_read = <<>> \/ kb[1].files_read[1].rules_json = <<>>))
               => kb[1].self.rules = EmptyDict

(***************************************************************************)
(* Two sessions.                                                           *)
(***************************************************************************)
\* C17: with two agents, each with its own PhaseManager and
\* ConversationHistory, whatever the order of their turns, each agent's
\* phase, its manager's phase, its profile, its history and its
\* last-mentioned listing are what its own messages alone would have made.
C17_SessionsAreIndependent ==
    heap # <<>> => \A a \in Agents : Load(a) = alone[a]

\* both agents have taken turns, the second agent after the first turn of
\* the first, and they have come to different profiles, histories and
\* last-mentioned listings
C17_Witness ==
    /\ heap # <<>>
    /\ UserTurns(Load(1).history) = 2
    /\ UserTurns(Load(2).history) = 1
    /\ DOMAIN Load(1).user_info # {}
    /\ DOMAIN Load(2).user_info # {}
    /\ Load(1).user_info # Load(2).user_info
    /\ Load(1).last_mentioned_property # <<>>
    /\ Load(1).last_mentioned_property # Load(2).last_mentioned_property

(***************************************************************************)
(* The text functions.                                                     *)
(***************************************************************************)
\* the call of the run has returned
Returned(function) ==
    /\ text_call # <<>>
    /\ text_call[1].function = function
    /\ text_call[1].returned # <<>>

\* a negation marker immediately followed by a positive word, or the phrase
\* "mesh kwayyes" (not good)
NegatedPositive(text) ==
    \/ text = text_mesh_kwayyes
    \/ \E i \in 1..Len(negation_words), j \in 1..Len(positive_words) :
           text = negation_words[i] \o <<32>> \o positive_words[j]

\* C18: the sentiment of a text made of a negation marker immediately
\* followed by a positive word is negative; in particular that of
\* "mesh kwayyes".
C18_NegatedPositiveIsNegative ==
    (Returned("analyze_sentiment") /\ NegatedPositive(text_call[1].text))
        => text_call[1].returned[1] = "negative"

\* the diacritics: fathatan to the last mark of the block, and the
\* superscript alef
Tashkeel == (1611..1631) \cup {1648}

\* C19: normalize_arabic_text is idempotent, and its result holds no
\* diacritic.
C19_NormalizeIsIdempotentAndDropsDiacritics ==
    Returned("normalize_arabic_text") =>
        /\ normalize_arabic_text(text_call[1].returned[1]) = text_call[1].returned[1]
        /\ \A i \in 1..Len(text_call[1].returned[1]) : text_call[1].returned[1][i] \notin Tashkeel

\* a text with a diacritic, a letter variant and white space to collapse has
\* been normalized to another text
C19_Witness ==
    /\ Returned("normalize_arabic_text")
    /\ \E i \in 1..Len(text_call[1].text) : text_call[1].text[i] \in Tashkeel
    /\ \E i \in 1..Len(text_call[1].text) : text_call[1].text[i] \in {1571, 1574, 1577, 1609}
    /\ Len(text_call[1].returned[1]) = 1

(***************************************************************************)
(* The contact fields in CLOSING.                                          *)
(***************************************************************************)
\* the latest turn was handled by the rule table in CLOSING
ClosingTurn ==
    /\ TurnTaken
    /\ ~OverrideMessage(last_turn[1].message)
    /\ last_turn[1].phase_before = "CLOSING"

\* C20: on a turn handled in CLOSING by the rule table, the conditions of
\* the rule hold exactly when the delta extracted on that turn has both
\* contact_name and phone_number; what the profile holds from earlier turns
\* does not count.
C20_InformationProvidedLooksAtTheDeltaOnly ==
    ClosingTurn =>
        (last_turn[1].reasoning_result.should_change_phase
            <=> AllFieldsTruthy(last_turn[1].reasoning_result.extracted_info, contact_fields))

\* the profile held contact_name from an earlier turn, the turn's delta has
\* the phone number alone, and the conditions did not hold
C20_Witness ==
    /\ ClosingTurn
    /\ AllFieldsTruthy(last_turn[1].analyze_user_info, <<"contact_name">>)
    /\ AllFieldsTruthy(last_turn[1].reasoning_result.extracted_info, <<"phone_number">>)
    /\ "contact_name" \notin DOMAIN last_turn[1].reasoning_result.extracted_info
    /\ ~last_turn[1].reasoning_result.should_change_phase
    /\ AllFieldsTruthy(agent_user_info, contact_fields)

(***************************************************************************)
(* What analyze extracts in each phase.                                    *)
(***************************************************************************)
\* the latest turn was not one of the two overrides
PlainTurn ==
    /\ TurnTaken
    /\ ~OverrideMessage(last_turn[1].message)

\* extract_preferences on each message
message_preferences == [m \in Messages |-> extract_preferences(m)]

contact_keys == {"contact_name", "phone_number", "email"}

\* C21: on a turn that is not an override, the extracted_info analyze
\* returns is extract_preferences(message) in DISCOVERY, has no key other
\* than contact_name, phone_number and email in CLOSING, and is empty in
\* each of the five phases between them.
C21_ExtractionDependsOnThePhase ==
    PlainTurn =>
        LET extracted_info == last_turn[1].reasoning_result.extracted_info
            phase == last_turn[1].phase_before
        IN  /\ phase = "DISCOVERY" => extracted_info = message_preferences[last_turn[1].message]
            /\ phase = "CLOSING" => DOMAIN extracted_info \subseteq contact_keys
            /\ phase \notin {"DISCOVERY", "CLOSING"} => extracted_info = EmptyDict

\* a message with preferences in it was handled in SUMMARY, and nothing was
\* extracted from it
C21_Witness ==
    /\ PlainTurn
    /\ last_turn[1].phase_before = "SUMMARY"
    /\ message_preferences[last_turn[1].message] # EmptyDict
    /\ last_turn[1].reasoning_result.extracted_info = EmptyDict

(***************************************************************************)
(* Which listings get_properties returns.                                  *)
(***************************************************************************)
\* text w is in text t, whatever the case of the letters
SubstringIgnoringCase(w, t) ==
    \E i \in 1..(Len(t) - Len(w) + 1) :
        \A k \in 1..Len(w) :
            \/ t[i + k - 1] = w[k]
            \/ t[i + k - 1] \in 65..90 /\ w[k] = t[i + k - 1] + 32
            \/ w[k] \in 65..90 /\ t[i + k - 1] = w[k] + 32

\* the listing passes every filter: it lacks the key, or the text of a
\* string filter is in its value, or one of the texts of a list filter is
PassesEveryFilter(listing, filters) ==
    \A key \in DOMAIN filters :
        \/ key \notin DOMAIN listing
        \/ /\ filters[key].type = "str"
           /\ SubstringIgnoringCase(filters[key].value, listing[key])
        \/ /\ filters[key].type = "list"
           /\ \E j \in 1..Len(filters[key].value) :
                  SubstringIgnoringCase(filters[key].value[j], listing[key])

\* the listing at position i is among those the latest call returned
ReturnedAt(i) ==
    \E j \in 1..Len(kb_call[1].returned) : kb_call[1].returned[j] = kb[1].self.properties[i]

\* the listings before position i that pass every filter
PassingBefore(i) ==
    {k \in 1..(i - 1) : PassesEveryFilter(kb[1].self.properties[k], kb_call[1].filters)}

\* C22 as stated: a listing of the store is returned by get_properties
\* exactly when it passes every filter.
C22_ReturnedExactlyWhenItPassesEveryFilter ==
    IsGetProperties =>
        \A i \in 1..Len(kb[1].self.properties) :
            ReturnedAt(i) <=> PassesEveryFilter(kb[1].self.properties[i], kb_call[1].filters)

\* C22, amended: a listing of the store is returned by get_properties
\* exactly when it passes every filter and either fewer than limit listings
\* before it in storage order pass them or it is the first listing of the
\* store.
C22_ReturnedExactlyWhenAmongTheFirstPassing ==
    IsGetProperties =>
        \A i \in 1..Len(kb[1].self.properties) :
            ReturnedAt(i) <=>
                /\ PassesEveryFilter(kb[1].self.properties[i], kb_call[1].filters)
                /\ (Cardinality(PassingBefore(i)) < kb_call[1].limit \/ i = 1)

\* a call with a filter on a key the listings lack and a filter on their
\* type returned some listings and left others out
C22_Witness ==
    /\ IsGetProperties
    /\ "bedrooms" \in DOMAIN kb_call[1].filters
    /\ \E i \in 1..Len(kb[1].self.properties) : ReturnedAt(i)
    /\ \E i \in 1..Len(kb[1].self.properties) :
           ~PassesEveryFilter(kb[1].self.properties[i], kb_call[1].filters)
    /\ \E i \in 1..Len(kb[1].self.properties) :
           /\ PassesEveryFilter(kb[1].self.properties[i], kb_call[1].filters)
           /\ ~ReturnedAt(i)

(***************************************************************************)
(* The filters of a turn's retrieval.                                      *)
(***************************************************************************)
\* the listing column each profile slot filters on
column_of ==
    [location |-> "location", property_type |-> "type", budget |-> "price",
     features |-> "features", bedrooms |-> "bedrooms"]

\* the slots of a profile that give a filter: the mapped ones with a truthy
\* value
FilteringSlots(user_info) ==
    {slot \in DOMAIN column_of \cap DOMAIN user_info : Truthy(user_info[slot])}

\* the filters parsed from the message of the latest turn
TurnParsed == message_query_filters[last_turn[1].message]

\* C23: the filters a turn's retrieve hands to get_properties have the
\* columns of the truthy mapped slots of the profile and the keys parsed
\* from the query, and no other; a key the query gives has the query's value,
\* and every other key has the value of its slot in the profile.
C23_QueryFiltersOverrideProfileFilters ==
    TurnTaken =>
        LET filters == last_turn[1].filters
            profile == last_turn[1].analyze_user_info
        IN  /\ DOMAIN filters =
                   {column_of[slot] : slot \in FilteringSlots(profile)} \cup DOMAIN TurnParsed
            /\ \A key \in DOMAIN TurnParsed : filters[key] = TurnParsed[key]
            /\ \A slot \in FilteringSlots(profile) :
                   column_of[slot] \notin DOMAIN TurnParsed =>
                       filters[column_of[slot]].value = profile[slot]

\* the profile and the query both gave a location, with different values,
\* and the budget came from the profile alone
C23_Witness ==
    /\ TurnTaken
    /\ "location" \in FilteringSlots(last_turn[1].analyze_user_info)
    /\ "location" \in DOMAIN TurnParsed
    /\ TurnParsed["location"].value # last_turn[1].analyze_user_info["location"]
    /\ last_turn[1].filters["location"] = TurnParsed["location"]
    /\ "budget" \in FilteringSlots(last_turn[1].analyze_user_info)
    /\ "price" \notin DOMAIN TurnParsed
    /\ "price" \in DOMAIN last_turn[1].filters

(***************************************************************************)
(* The slot scanner of the agent.                                          *)
(***************************************************************************)
scanned_slots == {"location", "budget", "property_type"}

thousand_units == { <<1575, 1604, 1601>>, <<107>> }    \* the thousand word, k

million_units == { <<1605, 1604, 1610, 1608, 1606>>, <<109>> }    \* the million word, m

pound_units == { <<1580, 1606, 1610, 1607>> }    \* the currency word

\* digits, then the thousand word (as the scanner writes it) and the
\* currency; digits, then the million word and the currency; digits, then
\* the currency
BudgetText(digits, unit) ==
    IF unit \in thousand_units
    THEN digits \o <<32, 1571, 1604, 1601, 32, 1580, 1606, 1610, 1607>>
    ELSE IF unit \in million_units
    THEN digits \o <<32, 1605, 1604, 1610, 1608, 1606, 32, 1580, 1606, 1610, 1607>>
    ELSE digits \o <<32, 1580, 1606, 1610, 1607>>

\* where the digits and commas that start at i end
AmountEnd(t, i) == RunEnd(t, i, IsDigitOrComma)

\* an amount starts at i: a digit, more digits and commas, white space or
\* none, and a unit
AmountAt(t, i) ==
    /\ IsDigit(t[i])
    /\ \E unit \in thousand_units \cup million_units \cup pound_units :
           MatchAt(t, SkipSpaces(t, AmountEnd(t, i)), unit)

\* the budget of the first amount of a text, with the separators out of the
\* digits
FirstAmountBudget(t) ==
    LET i == Min({k \in 1..Len(t) : AmountAt(t, k)})
        unit == CHOOSE u \in thousand_units \cup million_units \cup pound_units :
                    MatchAt(t, SkipSpaces(t, AmountEnd(t, i)), u)
    IN  BudgetText(SelectSeq(SubSeq(t, i, AmountEnd(t, i) - 1), LAMBDA c : c # 44), unit)

\* C24: _basic_info_extraction leaves every location, budget and
\* property_type the profile already has as it is; and it sets a budget
\* exactly when the profile has none and the message has an amount, to the
\* digits of the first amount without their separators, followed by the
\* thousand word and the currency for the thousand word or k, by the million
\* word and the currency for the million word or m, and by the currency
\* otherwise.
C24_ScannerKeepsSlotsAndNormalizesTheBudget ==
    Returned("_basic_info_extraction") =>
        LET before == text_call[1].user_info
            after == text_call[1].returned[1]
            message == text_call[1].text
        IN  /\ \A slot \in scanned_slots \cap DOMAIN before :
                   slot \in DOMAIN after /\ after[slot] = before[slot]
            /\ "budget" \notin DOMAIN before =>
                   IF \E k \in 1..Len(message) : AmountAt(message, k)
                   THEN "budget" \in DOMAIN after /\ after["budget"] = FirstAmountBudget(message)
                   ELSE "budget" \notin DOMAIN after

\* a message with two amounts, the first with separators in its digits and
\* the million word, was scanned into a profile that had a location and no
\* budget
C24_Witness ==
    /\ Returned("_basic_info_extraction")
    /\ "location" \in DOMAIN text_call[1].user_info
    /\ "budget" \notin DOMAIN text_call[1].user_info
    /\ Cardinality({k \in 1..Len(text_call[1].text) : AmountAt(text_call[1].text, k)}) >= 2
    /\ \E k \in 1..Len(text_call[1].text) : text_call[1].text[k] = 44
    /\ text_call[1].returned[1]["budget"] =
           <<49, 53, 48, 48, 48, 48, 48, 32, 1605, 1604, 1610, 1608, 1606, 32, 1580, 1606, 1610, 1607>>
    /\ text_call[1].returned[1]["location"] = text_call[1].user_info["location"]

(***************************************************************************)
(* The window of the history.                                              *)
(***************************************************************************)
\* the number of pairs a history of n records has
PairCount(n) == n \div 2

\* the smaller of two numbers
Smaller(a, b) == IF a <= b THEN a ELSE b

\* C25: get_formatted_history(max_pairs) returns the last min(max_pairs, p)
\* of the p pairs of the history, in order: the records from the one after
\* the first 2 * (p - min(max_pairs, p)) up to record 2 * p, hence at most
\* 2 * max_pairs of them, for every max_pairs >= 0.
C25_WindowIsTheLastMaxPairsPairs ==
    Returned("get_formatted_history") =>
        LET h == text_call[1].history
            p == PairCount(Len(h))
            kept == Smaller(text_call[1].max_pairs, p)
        IN  /\ text_call[1].returned[1] = SubSeq(h, 2 * (p - kept) + 1, 2 * p)
            /\ Len(text_call[1].returned[1]) <= 2 * text_call[1].max_pairs

(***************************************************************************)
(* The two passes of entity extraction.                                    *)
(***************************************************************************)
\* what the gazetteer pass gives on the text of the call, normalized
PrimaryPass == detect_arabic_entities(normalize_arabic_text(text_call[1].text))

\* what the rule-based pass gives on it
SecondaryPass == rule_based_entity_extraction(normalize_arabic_text(text_call[1].text))

\* C26: extract_entities returns the result of the gazetteer pass whenever
\* that result has an entity, and the result of the rule-based pass
\* otherwise; a kind only the rule-based pass found is never added to what
\* the gazetteer pass found.
C26_RuleBasedPassIsAnExclusiveFallback ==
    Returned("extract_entities") =>
        /\ DOMAIN PrimaryPass # {} => text_call[1].returned[1] = PrimaryPass
        /\ DOMAIN PrimaryPass = {} => text_call[1].returned[1] = SecondaryPass

\* the gazetteer pass found a city, the rule-based pass found a feature and
\* no city, and the result has the city and no feature
C26_Witness ==
    /\ Returned("extract_entities")
    /\ "LOC" \in DOMAIN PrimaryPass
    /\ "FEATURE" \in DOMAIN SecondaryPass
    /\ "LOC" \notin DOMAIN SecondaryPass
    /\ "LOC" \in DOMAIN text_call[1].returned[1]
    /\ "FEATURE" \notin DOMAIN text_call[1].returned[1]

(***************************************************************************)
(* The order of the entities of one kind.                                  *)
(***************************************************************************)
\* where w first occurs in t, 0 when it does not
FirstAt(w, t) ==
    IF \E i \in 1..Len(t) : MatchAt(t, i, w)
    THEN Min({i \in 1..Len(t) : MatchAt(t, i, w)})
    ELSE 0

\* the entities of a list come in the order of their first occurrence in t
InOrderOfMention(l, t) ==
    \A i \in 1..Len(l), j \in 1..Len(l) : i < j => FirstAt(l[i], t) <= FirstAt(l[j], t)

\* C27 (as claimed): the locations and the property types extract_entities
\* lists are in the order of their first occurrence in the text, and the
\* location and the property type extract_preferences gives are the ones
\* the text mentions first.
C27_EntitiesAreListedInOrderOfMention ==
    /\ Returned("extract_entities") =>
           \A kind \in {"LOC", "PROPERTY_TYPE"} \cap DOMAIN text_call[1].returned[1] :
               InOrderOfMention(text_call[1].returned[1][kind],
                                normalize_arabic_text(text_call[1].text))
    /\ Returned("extract_preferences") =>
           /\ "location" \in DOMAIN text_call[1].returned[1] =>
                  \A j \in 1..Len(extract_entities(text_call[1].text)["LOC"]) :
                      FirstAt(text_call[1].returned[1]["location"],
                              normalize_arabic_text(text_call[1].text))
                          <= FirstAt(extract_entities(text_call[1].text)["LOC"][j],
                                     normalize_arabic_text(text_call[1].text))
           /\ "property_type" \in DOMAIN text_call[1].returned[1] =>
                  \A j \in 1..Len(extract_entities(text_call[1].text)["PROPERTY_TYPE"]) :
                      FirstAt(text_call[1].returned[1]["property_type"],
                              normalize_arabic_text(text_call[1].text))
                          <= FirstAt(extract_entities(text_call[1].text)["PROPERTY_TYPE"][j],
                                     normalize_arabic_text(text_call[1].text))

(***************************************************************************)
(* The stemmer.                                                            *)
(***************************************************************************)
\* the recognized prefixes the word starts with
MatchingPrefixes(word) ==
    {stem_prefixes[j] : j \in 1..Len(stem_prefixes)} \cap
        {SubSeq(word, 1, n) : n \in 1..Len(word)}

\* the word without the longest recognized prefix it starts with
WithoutLongestPrefix(word) ==
    IF MatchingPrefixes(word) = {} THEN word
    ELSE LET longest == CHOOSE p \in MatchingPrefixes(word) :
                            \A q \in MatchingPrefixes(word) : Len(q) <= Len(p)
         IN  SubSeq(word, Len(longest) + 1, Len(word))

\* the word without the recognized suffix it ends with, when it is more than
\* two characters longer than that suffix
WithoutSuffix(word) ==
    LET ends == {j \in 1..Len(stem_suffixes) :
                    /\ Len(word) > Len(stem_suffixes[j]) + 2
                    /\ SubSeq(word, Len(word) - Len(stem_suffixes[j]) + 1, Len(word))
                           = stem_suffixes[j]}
    IN  IF ends = {} THEN word
        ELSE SubSeq(word, 1, Len(word) - Len(stem_suffixes[CHOOSE j \in ends : TRUE]))

\* C28 (as claimed): stem_arabic_word strips the longest recognized prefix
\* the word starts with, if any, and then the recognized suffix the rest
\* ends with, if the rest is more than two characters longer than it.
C28_StemStripsTheLongestPrefixThenASuffix ==
    Returned("stem_arabic_word") =>
        text_call[1].returned[1] = WithoutSuffix(WithoutLongestPrefix(text_call[1].text))

(***************************************************************************)
(* The agent's phase and its manager's.                                    *)
(***************************************************************************)
\* C29: the phase the agent holds is the phase its PhaseManager holds, at
\* construction and after every process_message call, whether the call was
\* an override, changed the phase or not, returned or raised.
C29_AgentAndManagerHoldTheSamePhase ==
    agent_current_phase = phase_manager_current_phase

\* a call has changed the phase, and both hold the new one
C29_Witness ==
    /\ TurnTaken
    /\ agent_current_phase # last_turn[1].phase_before
    /\ phase_manager_current_phase = agent_current_phase

(***************************************************************************)
(* The walk through the phases.                                            *)
(***************************************************************************)
\* the phases before CLOSING in the order of the enum
earlier_phases == {"DISCOVERY", "SUMMARY", "SUGGESTION", "PERSUASION", "ALTERNATIVE", "URGENCY"}

\* the phases the agent held before the latest call
HeldEarlier == {phase_trail[k] : k \in 1..(Len(phase_trail) - 1)}

\* C30: a process_message call moves the phase by at most one position of
\* the enum: forward by one only when the call was not an override and the
\* rule table reported a change, backward by one only on a go-back
\* utterance; and in a session started in DISCOVERY the agent is in CLOSING
\* only after it has held each of the six phases before it.
C30_PhaseMovesOneStepAtATime ==
    /\ [][IsTurn =>
            /\ PhaseIndex(agent_current_phase') - PhaseIndex(agent_current_phase) \in {0 - 1, 0, 1}
            /\ PhaseIndex(agent_current_phase') = PhaseIndex(agent_current_phase) + 1 =>
                   /\ ~OverrideMessage(last_turn'[1].message)
                   /\ last_turn'[1].reasoning_result.should_change_phase
            /\ PhaseIndex(agent_current_phase') = PhaseIndex(agent_current_phase) - 1 =>
                   GoBackMessage(last_turn'[1].message)]_vars
    /\ []((start_phase = "DISCOVERY" /\ agent_current_phase = "CLOSING")
              => earlier_phases \subseteq HeldEarlier)

\* a session started in DISCOVERY has reached CLOSING, one phase per call
\* from its second call on
C30_Witness ==
    /\ start_phase = "DISCOVERY"
    /\ agent_current_phase = "CLOSING"
    /\ earlier_phases \subseteq HeldEarlier
    /\ \A k \in 3..Len(phase_trail) :
           PhaseIndex(phase_trail[k]) = PhaseIndex(phase_trail[k - 1]) + 1

(***************************************************************************)
(* The two fields of analyze's result that report the transition.          *)
(***************************************************************************)
\* C31: in the result of every analyze call, should_change_phase is True
\* exactly when next_phase is a phase (not None) other than the phase the
\* call was handed.
C31_ShouldChangePhaseIffNextPhaseDiffers ==
    TurnTaken =>
        LET reasoning_result == last_turn[1].reasoning_result
        IN  reasoning_result.should_change_phase
                <=> /\ reasoning_result.next_phase # None
                    /\ reasoning_result.next_phase # last_turn[1].phase_before

(***************************************************************************)
(* The profile of an agent that has left DISCOVERY.                        *)
(***************************************************************************)
\* the slot is in the profile with a non-empty value
Given(user_info, slot) == slot \in DOMAIN user_info /\ user_info[slot] # <<>>

\* C32: in every state of a session started in DISCOVERY with an empty
\* profile, an agent whose phase is later than DISCOVERY has a truthy
\* location, budget and property_type in its profile.
C32_PastDiscoveryTheProfileIsComplete ==
    (start_phase = "DISCOVERY" /\ agent_current_phase # "DISCOVERY") =>
        /\ Given(agent_user_info, "location")
        /\ Given(agent_user_info, "budget")
        /\ Given(agent_user_info, "property_type")

\* the profile was completed over two turns (the budget first, the rest with
\* the second message), the agent moved on, and has since taken a further
\* turn that raised
C32_Witness ==
    /\ start_phase = "DISCOVERY"
    /\ Len(chat_history) >= 3
    /\ chat_history[1][1] = msg_budget
    /\ phase_trail[2] = "DISCOVERY"
    /\ phase_trail[3] = "SUMMARY"
    /\ agent_current_phase \notin {"DISCOVERY", "SUMMARY"}
    /\ ~last_turn[1].returned
    /\ Given(agent_user_info, "location")

(***************************************************************************)
(* The history across turns that raise.                                    *)
(***************************************************************************)
\* the records are the user's and the assistant's in turn
Alternates(h) ==
    \A j \in 1..Len(h) : h[j].role = IF j % 2 = 1 THEN "user" ELSE "assistant"

\* C33: after any sequence of turns, those in which text generation raises
\* included, the history alternates user, assistant, user, assistant, and a
\* turn that ended in the error reply has left the phase, the profile and
\* the history as they were before it.
C33_HistoryAlternatesAndFailedTurnLeavesNoTrace ==
    /\ Alternates(history)
    /\ (TurnTaken /\ ~last_turn[1].returned) =>
           /\ agent_current_phase = last_turn[1].phase_before
           /\ agent_user_info = last_turn[1].user_info_before
           /\ history = last_turn[1].history_before

(***************************************************************************)
(* A user who follows the script.                                          *)
(***************************************************************************)
keyword_phases == {"SUMMARY", "SUGGESTION", "PERSUASION", "ALTERNATIVE", "URGENCY"}

\* the slots the message gives, to the scanner or to the extractor
SlotsGiven(message) ==
    {slot \in scanned_slots : message_slots[message][slot] # <<>>}
        \cup DOMAIN message_preferences[message]

\* the message is no override and meets what the phase asks of a message:
\* the three slots in DISCOVERY, a keyword of the phase's rule in the five
\* phases after it
MeetsPhase(message, phase) ==
    /\ ~OverrideMessage(message)
    /\ phase = "DISCOVERY" => scanned_slots \subseteq SlotsGiven(message)
    /\ phase \in keyword_phases =>
           ContainsAny(Lower(message), phase_transition_rules[phase].conditions[1].keywords)

message_meets_phase == [m \in Messages |-> [p \in Phases |-> MeetsPhase(m, p)]]

\* turn j was taken with such a message, and it returned its reply
ScriptTurn(j) ==
    /\ message_meets_phase[chat_history[j][1]][phase_trail[j]]
    /\ chat_history[j][2].template # "error"

OnScript ==
    /\ start_phase = "DISCOVERY"
    /\ \A j \in 1..Len(chat_history) : ScriptTurn(j)

\* C34: a session started in DISCOVERY in which every message so far was no
\* override, met the message-dependent conditions of the phase it was sent
\* in, and was answered, has after k turns come at least to the k-th phase
\* of the order: after seven turns it is in CLOSING.
C34_ScriptedSessionReachesClosingInSevenTurns ==
    OnScript =>
        PhaseIndex(agent_current_phase) >= Smaller(Len(chat_history), Len(ConversationPhase))

\* seven turns on the script, the last of them from URGENCY into CLOSING
C34_Witness ==
    /\ OnScript
    /\ Len(chat_history) = 7
    /\ phase_trail[7] = "URGENCY"
    /\ agent_current_phase = "CLOSING"

(***************************************************************************)
(* Two runs of a session that differ in the generated texts only.          *)
(***************************************************************************)
\* C35: two runs of an agent from the same state that are sent the same
\* messages have after every turn the same phase, the same profile and
\* histories of the same length, whatever texts generate_arabic_response
\* returns in each.
C35_StateIsIndependentOfGeneratedText ==
    replay # <<>> =>
        /\ replay.current_phase = agent_current_phase
        /\ replay.user_info = agent_user_info
        /\ Len(replay.history) = Len(history)

\* the two runs were given different texts, which their histories hold, and
\* have since moved to a later phase
C35_Witness ==
    /\ replay # <<>>
    /\ \E j \in 1..Len(history) : replay.history[j] # history[j]
    /\ AllReturned
    /\ Len(phase_trail) >= 4
    /\ PhaseIndex(phase_trail[Len(phase_trail)]) > PhaseIndex(phase_trail[Len(phase_trail) - 1])
    /\ history[Len(history) - 2] # replay.history[Len(history) - 2]

(***************************************************************************)
(* The number of listings get_properties returns.                          *)
(***************************************************************************)
\* C36: a get_properties call with a limit of 0 or more returns no more
\* than limit listings.
C36_GetPropertiesReturnsAtMostLimit ==
    IsGetProperties => Len(kb_call[1].returned) <= kb_call[1].limit

(***************************************************************************)
(* The manager's own moves.                                                *)
(***************************************************************************)
\* the position of a phase in the order, DISCOVERY at 0
Position(phase) == PhaseIndex(phase) - 1

last_position == Len(ConversationPhase) - 1

AdvanceCalls == {j \in 1..Len(manager_calls) : manager_calls[j].method = "advance_phase"}

\* every set_current_phase or set_phase call so far named the phase the
\* manager was in
SetCallsNamedTheCurrentPhase ==
    \A j \in 1..Len(manager_calls) :
        manager_calls[j].method # "advance_phase" => manager_calls[j].phase = manager_calls[j].before

\* C37: advance_phase moves the manager to the next phase of the order and
\* leaves it in CLOSING; set_current_phase and set_phase with the phase the
\* manager is in leave it there; and a manager started in DISCOVERY is after
\* k calls of advance_phase (and any such set calls) at position min(k, 6).
C37_AdvancePhaseStepsThroughTheOrder ==
    /\ \A j \in 1..Len(manager_calls) :
           LET call == manager_calls[j]
           IN  /\ (call.method = "advance_phase" /\ call.before # "CLOSING") =>
                      Position(call.after) = Position(call.before) + 1
               /\ (call.method = "advance_phase" /\ call.before = "CLOSING") =>
                      call.after = "CLOSING"
               /\ (call.method # "advance_phase" /\ call.phase = call.before) =>
                      call.after = call.before
    /\ (start_phase = "DISCOVERY" /\ SetCallsNamedTheCurrentPhase) =>
           Position(phase_manager_current_phase)
               = Smaller(Cardinality(AdvanceCalls), last_position)

\* a manager started in DISCOVERY has been advanced seven times, the last
\* time in CLOSING, with a set_phase call naming the current phase on the way
C37_Witness ==
    /\ start_phase = "DISCOVERY"
    /\ SetCallsNamedTheCurrentPhase
    /\ Cardinality(AdvanceCalls) = 7
    /\ \E j \in 1..Len(manager_calls) :
           manager_calls[j].method = "set_phase" /\ manager_calls[j].before = "SUGGESTION"
    /\ manager_calls[Len(manager_calls)].method = "advance_phase"
    /\ manager_calls[Len(manager_calls)].before = "CLOSING"
    /\ phase_manager_current_phase = "CLOSING"
=============================================================================
